---------------------------- MODULE Spec2Model ----------------------------
(***************************************************************************)
(* A model of scripts/clone_webpage.py: the single-threaded snapshot of a  *)
(* rendered page (clone_webpage), its resource download (download_resource)*)
(* and its textual CSS rewrite (process_css).                              *)
(*                                                                         *)
(* Text is modelled as a sequence of tokens, each token standing for the   *)
(* characters it spells.  The characters the regular expressions and the   *)
(* URL parser treat specially (quotes, parentheses, white space, "/", "?", *)
(* "#", ",") are tokens of their own, and no token spells a substring of   *)
(* another, so that matching, splitting and str.replace on tokens agree    *)
(* with the same operations on characters.                                 *)
(***************************************************************************)
EXTENDS Integers, Sequences, FiniteSets, TLC

VARIABLES
    pc,        \* where clone_webpage is: "start", a pass ("css", "style", "script", "img", "link"), "save", "done"
    idx,       \* index in the document of the element the pass handles next
    page,      \* rendered_html: the document as the renderer returned it
    soup,      \* the parsed tree, its attributes rewritten in place
    net,       \* the remote side: request URL -> "ok" | "http" | "net"
    files,     \* the output directory: filename -> content
    requests,  \* every requests.get issued, in order (the request URLs)
    writes,    \* every file write, in order: [name, content, url]
    log,       \* clone_log.txt: [level, msg, url]
    disk,      \* the paths that cannot be created or opened for writing
    ioerrors,  \* every failed creation or open, in order (the paths)
    locals     \* the other local variables of the running script (counters, flags, options)

vars == <<pc, idx, page, soup, net, files, requests, writes, log, disk, ioerrors, locals>>

(***************************************************************************)
(* Bounds.                                                                 *)
(***************************************************************************)
MaxElems == 2
MaxDown == 1

(***************************************************************************)
(* Tokens.                                                                 *)
(***************************************************************************)
DQ == "\""
SQ == "'"
WS == " "
RP == ")"
URLP == "url("
IMP == "@import"
SL == "/"
QM == "?"
HASH == "#"
COMMA == ","
HTTPS == "https:"
DATA == "data:"
\* Python's None, as an attribute value or a return value.
NoneV == <<"<None>">>

At(s, p) == IF p >= 1 /\ p <= Len(s) THEN s[p] ELSE "<eot>"

\* s[i:] starts with p
StartsAt(s, i, p) ==
    /\ i + Len(p) - 1 <= Len(s)
    /\ \A k \in 1..Len(p) : s[i + k - 1] = p[k]

\* p in s
Contains(s, p) == \E i \in 1..(Len(s) + 1) : StartsAt(s, i, p)

\* s[i:] (1-based, to the end)
From(s, i) == IF i > Len(s) THEN <<>> ELSE SubSeq(s, i, Len(s))

\* index of the first / last occurrence of token t in s, 0 when there is none
FirstOf(s, t) ==
    IF \E i \in 1..Len(s) : s[i] = t
    THEN CHOOSE i \in 1..Len(s) : s[i] = t /\ \A j \in 1..(i - 1) : s[j] # t
    ELSE 0

LastOf(s, t) ==
    IF \E i \in 1..Len(s) : s[i] = t
    THEN CHOOSE i \in 1..Len(s) : s[i] = t /\ \A j \in (i + 1)..Len(s) : s[j] # t
    ELSE 0

RECURSIVE ReplaceFrom(_, _, _, _)
ReplaceFrom(s, i, old, new) ==
    IF i > Len(s) THEN <<>>
    ELSE IF StartsAt(s, i, old)
         THEN new \o ReplaceFrom(s, i + Len(old), old, new)
         ELSE <<s[i]>> \o ReplaceFrom(s, i + 1, old, new)

RECURSIVE Interleave(_, _, _)
Interleave(s, i, new) ==
    IF i > Len(s) THEN new ELSE new \o <<s[i]>> \o Interleave(s, i + 1, new)

\* str.replace(old, new): every non-overlapping occurrence, left to right
StrReplace(s, old, new) ==
    IF old = <<>> THEN Interleave(s, 1, new) ELSE ReplaceFrom(s, 1, old, new)

(***************************************************************************)
(* The two regular expressions of process_css.                             *)
(***************************************************************************)
IsQuote(t) == t \in {DQ, SQ}
\* [^"')]
InClass(t) == t \notin {DQ, SQ, RP, "<eot>"}

RECURSIVE WsRun(_, _)
WsRun(s, p) == IF At(s, p) = WS THEN 1 + WsRun(s, p + 1) ELSE 0

RECURSIVE ClassRun(_, _)
ClassRun(s, p) == IF InClass(At(s, p)) THEN 1 + ClassRun(s, p + 1) ELSE 0

NoMatch == [found |-> FALSE]

\* Let(v, LAMBDA x : e) is e with x bound to v
Let(v, Body(_)) == Body(v)

\* @import\s*(url\()?["\']?([^"\')]+)["\']? tried at position i.  A
\* candidate <<k, u, q>> is one way to take the optional parts: k white
\* space, url( or not, the quote or not.  The engine prefers more white
\* space, then url( taken, then the quote taken.
ImportOk(s, i, k, u, q) ==
    /\ u = 1 => At(s, i + 1 + k) = URLP
    /\ q = 1 => IsQuote(At(s, i + 1 + k + u))
    /\ ClassRun(s, i + 1 + k + u + q) >= 1

ImportMatchAt(s, i) ==
    IF At(s, i) # IMP THEN NoMatch
    ELSE Let(WsRun(s, i + 1), LAMBDA w :
         Let({c \in (0..w) \X {0, 1} \X {0, 1} : ImportOk(s, i, c[1], c[2], c[3])},
             LAMBDA cands :
         IF cands = {} THEN NoMatch
         ELSE Let(CHOOSE c \in cands : \A d \in cands :
                      (w - c[1]) * 4 + (1 - c[2]) * 2 + (1 - c[3])
                          <= (w - d[1]) * 4 + (1 - d[2]) * 2 + (1 - d[3]),
                  LAMBDA c :
              Let(i + 1 + c[1] + c[2] + c[3], LAMBDA g :
              Let(g + ClassRun(s, g), LAMBDA e :
              Let(IF IsQuote(At(s, e)) THEN e + 1 ELSE e, LAMBDA end :
                  [found |-> TRUE, start |-> i, end |-> end,
                   g0 |-> SubSeq(s, i, end - 1), g |-> SubSeq(s, g, e - 1)]))))))

\* url\s*\(\s*["\']?([^"\')]+)["\']?\s*\) tried at position i.  UrlClose
\* is where the closing parenthesis must stand when the group ends before e.
UrlClose(s, e) ==
    Let(IF IsQuote(At(s, e)) THEN e + 1 ELSE e, LAMBDA e2 : e2 + WsRun(s, e2))

UrlOk(s, i, k, q) ==
    /\ q = 1 => IsQuote(At(s, i + 1 + k))
    /\ Let(ClassRun(s, i + 1 + k + q), LAMBDA n :
           n >= 1 /\ At(s, UrlClose(s, i + 1 + k + q + n)) = RP)

UrlMatchAt(s, i) ==
    IF At(s, i) # URLP THEN NoMatch
    ELSE Let(WsRun(s, i + 1), LAMBDA w :
         Let({c \in (0..w) \X {0, 1} : UrlOk(s, i, c[1], c[2])}, LAMBDA cands :
         IF cands = {} THEN NoMatch
         ELSE Let(CHOOSE c \in cands : \A d \in cands :
                      (w - c[1]) * 2 + (1 - c[2]) <= (w - d[1]) * 2 + (1 - d[2]),
                  LAMBDA c :
              Let(i + 1 + c[1] + c[2], LAMBDA g :
              Let(g + ClassRun(s, g), LAMBDA e :
              Let(UrlClose(s, e) + 1, LAMBDA end :
                  [found |-> TRUE, start |-> i, end |-> end,
                   g0 |-> SubSeq(s, i, end - 1), g |-> SubSeq(s, g, e - 1)]))))))

\* import_regex.finditer(s) / url_regex.finditer(s): the matches, left to
\* right, none overlapping another
RECURSIVE ImportMatches(_, _)
ImportMatches(s, i) ==
    IF i > Len(s) THEN <<>>
    ELSE Let(ImportMatchAt(s, i), LAMBDA m :
             IF m.found THEN <<m>> \o ImportMatches(s, m.end)
             ELSE ImportMatches(s, i + 1))

RECURSIVE UrlMatches(_, _)
UrlMatches(s, i) ==
    IF i > Len(s) THEN <<>>
    ELSE Let(UrlMatchAt(s, i), LAMBDA m :
             IF m.found THEN <<m>> \o UrlMatches(s, m.end)
             ELSE UrlMatches(s, i + 1))

(***************************************************************************)
(* urllib.parse on token text.  A URL is scheme, "//" netloc, path,        *)
(* "?" query, "#" fragment; each part is the text it spells.               *)
(***************************************************************************)
SchemeTokens == {HTTPS, DATA}
\* urllib.parse.uses_relative and uses_netloc hold https and not data
UsesRelative == {HTTPS}
UsesNetloc == {HTTPS}

\* the first position at or after p holding one of the tokens ts, or Len(s)+1
RECURSIVE Upto(_, _, _)
Upto(s, p, ts) ==
    IF p > Len(s) \/ s[p] \in ts THEN p ELSE Upto(s, p + 1, ts)

\* urlparse(url, scheme=default)
urlparse(url, default) ==
    Let(At(url, 1) \in SchemeTokens, LAMBDA hasScheme :
    Let(IF hasScheme THEN From(url, 2) ELSE url, LAMBDA r1 :
    Let(At(r1, 1) = SL /\ At(r1, 2) = SL, LAMBDA hasNetloc :
    Let(IF hasNetloc THEN Upto(r1, 3, {SL, QM, HASH}) ELSE 1, LAMBDA nEnd :
    Let(From(r1, nEnd), LAMBDA r2 :
    Let(FirstOf(r2, HASH), LAMBDA f :
    Let(IF f = 0 THEN r2 ELSE SubSeq(r2, 1, f - 1), LAMBDA r3 :
    Let(FirstOf(r3, QM), LAMBDA q :
        [scheme   |-> IF hasScheme THEN url[1] ELSE default,
         netloc   |-> IF hasNetloc THEN SubSeq(r1, 3, nEnd - 1) ELSE <<>>,
         path     |-> IF q = 0 THEN r3 ELSE SubSeq(r3, 1, q - 1),
         query    |-> IF q = 0 THEN <<>> ELSE From(r3, q + 1),
         fragment |-> IF f = 0 THEN <<>> ELSE From(r2, f + 1)]))))))))

urlunparse(u) ==
    (IF u.scheme = "" THEN <<>> ELSE <<u.scheme>>)
    \o (IF u.netloc # <<>> THEN <<SL, SL>> \o u.netloc ELSE <<>>)
    \o (IF u.netloc # <<>> /\ u.path # <<>> /\ u.path[1] # SL THEN <<SL>> ELSE <<>>)
    \o u.path
    \o (IF u.query # <<>> THEN <<QM>> \o u.query ELSE <<>>)
    \o (IF u.fragment # <<>> THEN <<HASH>> \o u.fragment ELSE <<>>)

\* the parts urljoin puts together from the parsed base b and reference r
JoinParts(b, r) ==
    IF r.scheme \in UsesNetloc /\ r.netloc # <<>> THEN r
    ELSE IF r.path = <<>>
    THEN [scheme |-> r.scheme, netloc |-> b.netloc, path |-> b.path,
          query |-> IF r.query = <<>> THEN b.query ELSE r.query,
          fragment |-> r.fragment]
    ELSE Let(IF At(r.path, 1) = SL THEN r.path
             ELSE SubSeq(b.path, 1, LastOf(b.path, SL)) \o r.path, LAMBDA joined :
             [scheme |-> r.scheme, netloc |-> b.netloc,
              path |-> IF joined = <<>> THEN <<SL>> ELSE joined,
              query |-> r.query, fragment |-> r.fragment])

\* urljoin(base, url), for paths without "." and ".." segments and without
\* empty segments (the references of this model hold none)
urljoin(base, url) ==
    IF url = <<>> THEN base
    ELSE IF base = <<>> THEN url
    ELSE Let(urlparse(base, ""), LAMBDA b :
         Let(urlparse(url, b.scheme), LAMBDA r :
             IF r.scheme # b.scheme \/ r.scheme \notin UsesRelative THEN url
             ELSE urlunparse(JoinParts(b, r))))

\* os.path.basename(path)
basename(path) == From(path, LastOf(path, SL) + 1)

\* the extension a name token spells ("" when it spells none)
TokExt(t) ==
    CASE t \in {"a.css", "b.css"} -> ".css"
      [] t = "bg.png" -> ".png"
      [] t = "app.js" -> ".js"
      [] t = "index.html" -> ".html"
      [] OTHER -> ""

\* os.path.splitext(path)[1]: the extension of the last component
splitext1(path) ==
    Let(basename(path), LAMBDA b : IF b = <<>> THEN "" ELSE TokExt(b[Len(b)]))

\* re.sub(r'[^\w\-\.]', '_', name), token by token: the name tokens spell
\* only word characters, "-" and "."; every other token of the alphabet
\* spells characters outside that class
NameTokens == {"a.css", "b.css", "bg.png", "app.js", "index.html", "img", "h",
               "x", "1x", "2x", "resource", "styles.css", ".css", ".png", ".js", ".html", ".bin"}
SanitizeTok(t) ==
    CASE t \in NameTokens -> t
      [] t = URLP -> "url_"
      [] t = IMP -> "_import"
      [] t = HTTPS -> "https_"
      [] t = DATA -> "data_"
      [] OTHER -> "_"

sanitize(name) == [i \in 1..Len(name) |-> SanitizeTok(name[i])]

\* mimetypes.guess_extension(content_type); "" stands for None
guess_extension(ctype) ==
    CASE ctype = "text/css" -> ".css"
      [] ctype = "image/png" -> ".png"
      [] ctype = "application/javascript" -> ".js"
      [] ctype = "text/html" -> ".html"
      [] OTHER -> ""

(***************************************************************************)
(* The remote site.  Bodies are fixed; which URLs answer is part of the    *)
(* state (net).                                                            *)
(***************************************************************************)
Origin == <<HTTPS, SL, SL, "h">>
\* url: the page clone_webpage is given
PageUrl == Origin \o <<SL, "index.html">>
UrlA == Origin \o <<SL, "a.css">>
UrlB == Origin \o <<SL, "b.css">>
UrlBg == Origin \o <<SL, "bg.png">>
UrlBg2 == Origin \o <<SL, "img", SL, "bg.png">>
UrlJs == Origin \o <<SL, "app.js">>
SiteUrls == {PageUrl, UrlA, UrlB, UrlBg, UrlBg2, UrlJs}

\* more of the site: bg.png with a query, in two orders of its parameters
\* and with another parameter; a path with a comma; a path without an
\* extension
UrlQ1 == UrlBg \o <<QM, "a", "&", "b">>
UrlQ2 == UrlBg \o <<QM, "b", "&", "a">>
UrlQ3 == UrlBg \o <<QM, "c">>
UrlComma == UrlBg \o <<COMMA, "x">>
UrlImg == Origin \o <<SL, "img">>
RefSiteUrls == SiteUrls \cup {UrlQ1, UrlQ2, UrlQ3, UrlComma, UrlImg}

\* a.css imports b.css and uses bg.png; b.css imports a.css
CssA == <<IMP, WS, URLP, SL, "b.css", RP, ";",
          "x", "{", URLP, SL, "bg.png", RP, "}">>
CssB == <<IMP, WS, DQ, SL, "a.css", DQ, ";">>

SiteCtype(u) ==
    CASE u \in {UrlA, UrlB} -> "text/css"
      [] u \in {UrlBg, UrlBg2, UrlQ1, UrlQ2, UrlQ3, UrlComma, UrlImg} -> "image/png"
      [] u = UrlJs -> "application/javascript"
      [] OTHER -> "text/html"

SiteBody(u) ==
    CASE u = PageUrl -> <<"PAGE">>
      [] u = UrlA -> CssA
      [] u = UrlB -> CssB
      [] u = UrlBg -> <<"PNG1">>
      [] u = UrlBg2 -> <<"PNG2">>
      [] u = UrlQ1 -> <<"PNG-ab">>
      [] u = UrlQ2 -> <<"PNG-ba">>
      [] u = UrlQ3 -> <<"PNG-c">>
      [] u = UrlComma -> <<"PNG3">>
      [] u = UrlImg -> <<"PNG4">>
      [] u = UrlJs -> <<"JS">>
      [] OTHER -> <<"404">>

\* the URL a request for url goes to: the fragment is not sent
RequestUrl(url) ==
    Let(urlparse(url, ""), LAMBDA u : urlunparse([u EXCEPT !.fragment = <<>>]))

\* How the remote side answers a request for k: "ok" (2xx), "http" (a
\* non-2xx status with an error body), "net" (no response: requests.get
\* raises); a URL the site does not have answers "http"
Outcome(n, k) == IF k \in DOMAIN n THEN n[k] ELSE "http"

\* the response to the request for k
Response(n, k, w) ==
    Let(Outcome(n, k), LAMBDA o :
        IF o = "net"
        THEN [raised |-> TRUE, ok |-> FALSE, ctype |-> "", body |-> <<>>, w |-> w]
        ELSE IF o = "http"
        THEN [raised |-> FALSE, ok |-> FALSE, ctype |-> "text/html",
              body |-> <<"404">>, w |-> w]
        ELSE [raised |-> FALSE, ok |-> TRUE, ctype |-> SiteCtype(k),
              body |-> SiteBody(k), w |-> w])

\* requests.get(url, ...): raises without a request for a URL requests has
\* no connection adapter for; else the request is issued and answered
RequestsGet(url, n, w) ==
    Let(urlparse(url, ""), LAMBDA u :
        IF u.scheme # HTTPS \/ u.netloc = <<>>
        THEN [raised |-> TRUE, ok |-> FALSE, ctype |-> "", body |-> <<>>, w |-> w]
        ELSE Let(urlunparse([u EXCEPT !.fragment = <<>>]), LAMBDA k :
                 Response(n, k, [w EXCEPT !.requests = Append(@, k)])))

\* open(path, 'w').write(content): open raises OSError for a path that
\* cannot be written, and the file is then left as it was
WriteFile(w, name, content, url) ==
    IF name \in w.disk
    THEN [w EXCEPT !.ioerrors = Append(@, name)]
    ELSE [w EXCEPT !.files = (name :> content) @@ @,
                   !.writes = Append(@, [name |-> name, content |-> content, url |-> url])]

Logged(w, level, msg, url) ==
    [w EXCEPT !.log = Append(@, [level |-> level, msg |-> msg, url |-> url])]

(***************************************************************************)
(* download_resource(url, output_dir, headers, base_url)                   *)
(***************************************************************************)
\* ext: the content type's extension, or the path's, or .bin
ExtFor(ctype, path) ==
    Let(guess_extension(ctype), LAMBDA g :
    Let(splitext1(path), LAMBDA p :
        IF g # "" THEN g ELSE IF p # "" THEN p ELSE ".bin"))

\* filename: the sanitized last component of the path, or resource<ext>
FilenameFor(ctype, path) ==
    Let(sanitize(basename(path)), LAMBDA b :
        IF b # <<>> THEN b ELSE <<"resource", ExtFor(ctype, path)>>)

download_resource(url, n, w) ==
    IF url = <<>> \/ Contains(url, <<DATA>>) \/ At(url, 1) = HASH
    THEN [ret |-> NoneV, w |-> w]
    ELSE Let(urlparse(url, ""), LAMBDA parsed :
         IF parsed.scheme = "" \/ parsed.netloc = <<>>
         THEN [ret |-> NoneV, w |-> w]
         ELSE Let(RequestsGet(url, n, Logged(w, "info", "Downloading resource", url)),
                  LAMBDA r :
              IF r.raised \/ ~r.ok
              THEN [ret |-> NoneV,
                    w |-> Logged(r.w, "error", "Failed to download resource", url)]
              ELSE Let(FilenameFor(r.ctype, parsed.path), LAMBDA filename :
                   Let(WriteFile(r.w, filename, r.body,
                                 urlunparse([parsed EXCEPT !.fragment = <<>>])), LAMBDA w2 :
                       IF filename \in r.w.disk
                       THEN [ret |-> NoneV,
                             w |-> Logged(w2, "error", "Failed to download resource", url)]
                       ELSE [ret |-> filename, w |-> w2]))))

(***************************************************************************)
(* process_css(css_content, css_url, output_dir, headers, base_url)        *)
(***************************************************************************)
\* the first loop, over the @import matches ms[k..] of the original text
RECURSIVE ImportLoop(_, _, _, _, _, _)
ImportLoop(ms, k, css, css_url, n, w) ==
    IF k > Len(ms) THEN [css |-> css, w |-> w]
    ELSE Let(download_resource(urljoin(css_url, ms[k].g), n, w), LAMBDA d :
             ImportLoop(ms, k + 1,
                        IF d.ret # NoneV
                        THEN StrReplace(css, ms[k].g0, <<IMP, WS, DQ>> \o d.ret \o <<DQ>>)
                        ELSE css,
                        css_url, n, d.w))

\* the second loop, over the url(...) matches ms[k..] of the text the first
\* loop left
RECURSIVE UrlLoop(_, _, _, _, _, _)
UrlLoop(ms, k, css, css_url, n, w) ==
    IF k > Len(ms) THEN [css |-> css, w |-> w]
    ELSE IF At(ms[k].g, 1) = DATA \/ At(ms[k].g, 1) = HASH
         THEN UrlLoop(ms, k + 1, css, css_url, n, w)
         ELSE Let(download_resource(urljoin(css_url, ms[k].g), n, w), LAMBDA d :
                  UrlLoop(ms, k + 1,
                          IF d.ret # NoneV THEN StrReplace(css, ms[k].g, d.ret) ELSE css,
                          css_url, n, d.w))

process_css(css_content, css_url, n, w) ==
    Let(ImportLoop(ImportMatches(css_content, 1), 1, css_content, css_url, n,
                   Logged(w, "info", "Processing CSS from", css_url)), LAMBDA a :
        UrlLoop(UrlMatches(a.css, 1), 1, a.css, css_url, n, a.w))

(***************************************************************************)
(* The document.  An element holds its tag, its rel as BeautifulSoup gives *)
(* it, the attributes clone_webpage reads, and its string.                 *)
(***************************************************************************)
\* link.get('rel'): html.parser makes rel a multi-valued attribute, so the
\* value is a list of strings, or None when the attribute is absent
RelList(l) == [list |-> l]
RelStr(x) == [str |-> x]
NoRel == [none |-> TRUE]

Elem(tag, rel, href, src, srcset, string) ==
    [tag |-> tag, rel |-> rel, href |-> href, src |-> src, srcset |-> srcset,
     string |-> string]

Link(rel, href) == Elem("link", RelList(<<rel>>), href, NoneV, NoneV, NoneV)
Img(src, srcset) == Elem("img", NoRel, NoneV, src, srcset, NoneV)

Templates ==
    { Link("stylesheet", <<SL, "a.css">>),
      Link("stylesheet", <<SL, "b.css">>),
      Link("icon", <<SL, "bg.png">>),
      Elem("style", NoRel, NoneV, NoneV, NoneV, <<"x", "{", URLP, SL, "bg.png", RP, "}">>),
      Elem("script", NoRel, NoneV, <<SL, "app.js">>, NoneV, NoneV),
      Elem("script", NoRel, NoneV, NoneV, NoneV, <<"x">>),
      Img(<<SL, "bg.png">>, NoneV),
      Img(<<"img", SL, "bg.png">>, NoneV),
      Img(<<HASH>>, NoneV),
      Img(<<DATA, "x">>, NoneV),
      Img(NoneV, <<SL, "bg.png", WS, "1x", COMMA, WS, SL, "img", SL, "bg.png", WS, "2x">>) }

Docs == UNION {[1..k -> Templates] : k \in 1..MaxElems}

\* the sites of which at most MaxDown URLs do not answer with success
Worlds ==
    {n \in [SiteUrls -> {"ok", "http", "net"}] :
        Cardinality({u \in SiteUrls : n[u] # "ok"}) <= MaxDown}

\* output_dir, and the paths in it that may be unwritable
OutputDir == <<"cloned_webpage">>
DiskPaths == {OutputDir, <<"a.css">>, <<"bg.png">>, <<"index.html">>}

\* the remote side and the disk, with at most MaxDown faults between them
Faults ==
    {f \in Worlds \X SUBSET DiskPaths :
        Cardinality({u \in SiteUrls : f[1][u] # "ok"}) + Cardinality(f[2]) <= MaxDown}

\* the falsy attribute values: None and the empty string
Truthy(v) == v # NoneV /\ v # <<>>

HasRel(e, x) == "list" \in DOMAIN e.rel /\ \E i \in 1..Len(e.rel.list) : e.rel.list[i] = x

\* value.split(',')[0].strip().split(' ')[0]
RECURSIVE Strip(_)
Strip(s) ==
    IF s # <<>> /\ s[1] = WS THEN Strip(Tail(s))
    ELSE IF s # <<>> /\ s[Len(s)] = WS THEN Strip(SubSeq(s, 1, Len(s) - 1))
    ELSE s

FirstCandidate(v) ==
    Let(FirstOf(v, COMMA), LAMBDA c :
    Let(Strip(IF c = 0 THEN v ELSE SubSeq(v, 1, c - 1)), LAMBDA a :
    Let(FirstOf(a, WS), LAMBDA b :
        IF b = 0 THEN a ELSE SubSeq(a, 1, b - 1))))

\* soup.prettify(): the tree as text
AttrText(name, v) == IF v = NoneV THEN <<>> ELSE <<WS, name, "=", DQ>> \o v \o <<DQ>>

ElemText(e) ==
    <<"<", e.tag>>
    \o (IF "list" \in DOMAIN e.rel THEN AttrText("rel", e.rel.list) ELSE <<>>)
    \o AttrText("href", e.href) \o AttrText("src", e.src)
    \o AttrText("srcset", e.srcset) \o <<">">>
    \o (IF e.string = NoneV THEN <<>> ELSE e.string)

RECURSIVE Prettify(_, _)
Prettify(doc, i) ==
    IF i > Len(doc) THEN <<>> ELSE ElemText(doc[i]) \o Prettify(doc, i + 1)

(***************************************************************************)
(* clone_webpage(url, output_dir): one action per loop iteration.          *)
(***************************************************************************)
Passes == <<"css", "style", "script", "img", "link">>

\* soup.find_all(...) of each pass
InPass(p, e) ==
    CASE p = "css" -> e.tag = "link" /\ HasRel(e, "stylesheet")
      [] p = "style" -> e.tag = "style"
      [] p = "script" -> e.tag = "script" /\ e.src # NoneV
      [] p = "img" -> e.tag = "img"
      [] p = "link" -> e.tag = "link"

\* the next iteration: the first element at or after i that pass number p
\* finds, else the first element of a later pass, else the save
RECURSIVE Seek(_, _, _)
Seek(p, i, doc) ==
    IF p > Len(Passes) THEN [pc |-> "save", idx |-> 0]
    ELSE IF i > Len(doc) THEN Seek(p + 1, 1, doc)
    ELSE IF InPass(Passes[p], doc[i]) THEN [pc |-> Passes[p], idx |-> i]
    ELSE Seek(p, i + 1, doc)

PassNo(p) == CHOOSE k \in 1..Len(Passes) : Passes[k] = p

World == [files |-> files, requests |-> requests, writes |-> writes, log |-> log,
          disk |-> disk, ioerrors |-> ioerrors]

\* the state after a loop iteration with result r: the tree r.doc, the
\* files, requests and log of r.w, and the position of the next iteration
Commit(r) ==
    /\ soup' = r.doc
    /\ files' = r.w.files
    /\ requests' = r.w.requests
    /\ writes' = r.w.writes
    /\ log' = r.w.log
    /\ ioerrors' = r.w.ioerrors
    /\ \E nx \in {Seek(PassNo(pc), idx + 1, r.doc)} : pc' = nx.pc /\ idx' = nx.idx
    /\ UNCHANGED <<page, net, disk, locals>>

\* clone_webpage has no local variable beyond the tree and the loop position
NoLocals == <<>>

\* clone_webpage is called: page is what the renderer will return
Init ==
    /\ page \in Docs
    /\ soup = page
    /\ \E f \in Faults : net = f[1] /\ disk = f[2]
    /\ files = <<>>
    /\ requests = <<>>
    /\ writes = <<>>
    /\ log = <<>>
    /\ ioerrors = <<>>
    /\ locals = NoLocals
    /\ pc = "start"
    /\ idx = 0

\* the outer handler: except Exception as e: print, logging.error
Abort(path) ==
    /\ log' = Append(log, [level |-> "error", msg |-> "Error", url |-> path])
    /\ ioerrors' = Append(ioerrors, path)
    /\ pc' = "done"
    /\ idx' = 0

\* os.makedirs(output_dir), setup_logging, the rendering and the parse
Setup ==
    /\ pc = "start"
    /\ IF OutputDir \in disk
       THEN Abort(OutputDir)
       ELSE /\ log' = Append(log, [level |-> "info", msg |-> "Fetching rendered HTML for",
                                   url |-> PageUrl])
            /\ \E nx \in {Seek(1, 1, page)} : pc' = nx.pc /\ idx' = nx.idx
            /\ UNCHANGED ioerrors
    /\ UNCHANGED <<page, soup, net, files, requests, writes, disk, locals>>

\* css_filename: the sanitized last component of the path, or styles.css
CssFilename(css_url) ==
    Let(sanitize(basename(urlparse(css_url, "").path)), LAMBDA b :
        IF b # <<>> THEN b ELSE <<"styles.css">>)

\* the body of the first loop, for the link at i
StylesheetLink(doc, i, n, w) ==
    IF ~Truthy(doc[i].href) THEN [doc |-> doc, w |-> w]
    ELSE Let(urljoin(PageUrl, doc[i].href), LAMBDA css_url :
         Let(RequestsGet(css_url, n, w), LAMBDA r :
             IF r.raised
             THEN [doc |-> doc, w |-> Logged(r.w, "error", "Failed to process CSS", css_url)]
             ELSE Let(process_css(r.body, css_url, n, r.w), LAMBDA p :
                  Let(CssFilename(css_url), LAMBDA css_filename :
                  Let(WriteFile(p.w, css_filename, p.css, RequestUrl(css_url)), LAMBDA w2 :
                      IF css_filename \in p.w.disk
                      THEN [doc |-> doc,
                            w |-> Logged(w2, "error", "Failed to process CSS", css_url)]
                      ELSE [doc |-> [doc EXCEPT ![i].href = css_filename], w |-> w2])))))

\* for link in soup.find_all('link', rel='stylesheet')
ProcessStylesheet ==
    /\ pc = "css"
    /\ Commit(StylesheetLink(soup, idx, net, World))

\* the body of the second loop, for the style element at i
InlineStyle(doc, i, n, w) ==
    IF ~Truthy(doc[i].string) THEN [doc |-> doc, w |-> w]
    ELSE Let(process_css(doc[i].string, PageUrl, n, w), LAMBDA p :
             [doc |-> [doc EXCEPT ![i].string = p.css], w |-> p.w])

\* for style in soup.find_all('style')
ProcessStyle ==
    /\ pc = "style"
    /\ Commit(InlineStyle(soup, idx, net, World))

\* ScriptSrc without the assignment of the local filename to src
ScriptSrcNoRewrite(doc, i, n, w) ==
    IF ~Truthy(doc[i].src) THEN [doc |-> doc, w |-> w]
    ELSE Let(download_resource(urljoin(PageUrl, doc[i].src), n, w), LAMBDA d :
             [doc |-> doc, w |-> d.w])

\* the body of the third loop, for the script at i
ScriptSrc(doc, i, n, w) ==
    IF ~Truthy(doc[i].src) THEN [doc |-> doc, w |-> w]
    ELSE Let(download_resource(urljoin(PageUrl, doc[i].src), n, w), LAMBDA d :
             [doc |-> IF d.ret # NoneV THEN [doc EXCEPT ![i].src = d.ret] ELSE doc,
              w |-> d.w])

\* for script in soup.find_all('script', src=True)
DownloadScript ==
    /\ pc = "script"
    /\ Commit(ScriptSrc(soup, idx, net, World))

\* the body of the fourth loop, for the img at i
ImageSrc(doc, i, n, w) ==
    Let(IF Truthy(doc[i].src) THEN doc[i].src ELSE doc[i].srcset, LAMBDA img_url :
        IF ~Truthy(img_url) THEN [doc |-> doc, w |-> w]
        ELSE Let(download_resource(urljoin(PageUrl, FirstCandidate(img_url)), n, w),
                 LAMBDA d :
                 [doc |-> IF d.ret # NoneV THEN [doc EXCEPT ![i].src = d.ret] ELSE doc,
                  w |-> d.w]))

\* for img in soup.find_all('img')
DownloadImage ==
    /\ pc = "img"
    /\ Commit(ImageSrc(soup, idx, net, World))

\* the rel values the last loop takes
OtherRels == {RelStr("icon"), RelStr("shortcut icon"), RelStr("manifest"),
              RelStr("apple-touch-icon"), RelStr("stylesheet"), RelStr("preload"),
              RelStr("dns-prefetch"), RelStr("preconnect")}

\* the body of the last loop, for the link at i: link.get('rel') is a list
\* or None, and is looked up among strings
OtherLink(doc, i, n, w) ==
    IF ~(Truthy(doc[i].href) /\ doc[i].rel \in OtherRels) THEN [doc |-> doc, w |-> w]
    ELSE Let(download_resource(urljoin(PageUrl, doc[i].href), n, w), LAMBDA d :
             [doc |-> IF d.ret # NoneV THEN [doc EXCEPT ![i].href = d.ret] ELSE doc,
              w |-> d.w])

\* for link in soup.find_all('link')
HandleLink ==
    /\ pc = "link"
    /\ Commit(OtherLink(soup, idx, net, World))

\* SaveHtml were the save placed before the image loop: the tree is written,
\* and the loops over img and link run after it
SaveHtmlBeforeImages ==
    /\ pc = "save"
    /\ \E w \in {WriteFile(World, <<"index.html">>, Prettify(soup, 1), <<"soup">>)} :
           /\ files' = w.files
           /\ writes' = w.writes
           /\ ioerrors' = w.ioerrors
    /\ log' = Append(log, [level |-> "info", msg |-> "Webpage cloned successfully",
                           url |-> <<"index.html">>])
    /\ \E nx \in {Seek(4, 1, soup)} :
           IF nx.pc = "save" \/ \E k \in 1..Len(writes) : writes[k].url = <<"soup">>
           THEN pc' = "done" /\ idx' = 0
           ELSE pc' = nx.pc /\ idx' = nx.idx
    /\ UNCHANGED <<page, soup, net, requests, disk, locals>>

\* the save of the tree as index.html, and the success message
SaveHtml ==
    /\ pc = "save"
    /\ IF <<"index.html">> \in disk
       THEN /\ Abort(<<"index.html">>)
            /\ UNCHANGED <<files, writes>>
       ELSE /\ \E w \in {WriteFile(World, <<"index.html">>, Prettify(soup, 1), <<"soup">>)} :
                   /\ files' = w.files
                   /\ writes' = w.writes
            /\ log' = Append(log, [level |-> "info", msg |-> "Webpage cloned successfully",
                                   url |-> <<"index.html">>])
            /\ pc' = "done"
            /\ idx' = 0
            /\ UNCHANGED ioerrors
    /\ UNCHANGED <<page, soup, net, requests, disk, locals>>

Next ==
    \/ Setup
    \/ ProcessStylesheet
    \/ ProcessStyle
    \/ DownloadScript
    \/ DownloadImage
    \/ HandleLink
    \/ SaveHtml

Spec == Init /\ [][Next]_vars

(***************************************************************************)
(* clone_webpage on the references of the markup: link elements in and out *)
(* of the list of rel values, scripts with and without src, images with    *)
(* src or srcset, URLs with a query, with a comma, without an extension.   *)
(***************************************************************************)
RefTemplates ==
    { Link("icon", <<SL, "bg.png">>),
      Link("canonical", <<SL, "index.html">>),
      Link("stylesheet", <<SL, "a.css">>),
      Elem("style", NoRel, NoneV, NoneV, NoneV, <<"x", "{", URLP, SL, "bg.png", RP, "}">>),
      Elem("script", NoRel, NoneV, <<SL, "app.js">>, NoneV, NoneV),
      Elem("script", NoRel, NoneV, NoneV, NoneV, <<"x", "{", URLP, SL, "bg.png", RP, "}">>),
      Img(<<SL, "bg.png", QM, "a", "&", "b">>, NoneV),
      Img(<<"bg.png", QM, "b", "&", "a">>, NoneV),
      Img(<<SL, "bg.png", QM, "c">>, NoneV),
      Img(<<SL, "bg.png", COMMA, "x">>, NoneV),
      Img(NoneV, <<SL, "img", WS, "1x", COMMA, WS, SL, "bg.png", WS, "2x">>) }

RefDocs == UNION {[1..k -> RefTemplates] : k \in 1..MaxElems}

\* the site, of which at most MaxDown URLs answer with an error status
RefWorlds ==
    {n \in [RefSiteUrls -> {"ok", "http"}] :
        Cardinality({u \in RefSiteUrls : n[u] # "ok"}) <= MaxDown}

InitRefs ==
    /\ page \in RefDocs
    /\ soup = page
    /\ net \in RefWorlds
    /\ disk = {}
    /\ files = <<>>
    /\ requests = <<>>
    /\ writes = <<>>
    /\ log = <<>>
    /\ ioerrors = <<>>
    /\ locals = NoLocals
    /\ pc = "start"
    /\ idx = 0

SpecRefs == InitRefs /\ [][Next]_vars

(***************************************************************************)
(* process_css on its own: clone_webpage on a page that holds one style    *)
(* element, whose text is put together from a few rules.                   *)
(***************************************************************************)
MaxRules == 2

CssRules ==
    { <<"x", "{", URLP, SL, "bg.png", RP, "}">>,
      <<"y", "{", URLP, WS, SQ, SL, "img", SL, "bg.png", SQ, RP, "}">>,
      <<IMP, WS, URLP, SL, "b.css", RP, ";">>,
      <<IMP, DQ, SL, "a.css", DQ, ";">>,
      <<"/*", SL, "bg.png", "*/">>,
      <<"z", "{", URLP, HASH, "x", RP, "}">> }

RECURSIVE Concat(_, _)
Concat(f, i) == IF i > Len(f) THEN <<>> ELSE f[i] \o Concat(f, i + 1)

CssTexts == {Concat(f, 1) : f \in UNION {[1..k -> CssRules] : k \in 1..MaxRules}}

StylePage(text) == <<Elem("style", NoRel, NoneV, NoneV, NoneV, text)>>

InitCss ==
    /\ page \in {StylePage(t) : t \in CssTexts}
    /\ soup = page
    /\ \E f \in Faults : net = f[1] /\ disk = f[2]
    /\ files = <<>>
    /\ requests = <<>>
    /\ writes = <<>>
    /\ log = <<>>
    /\ ioerrors = <<>>
    /\ locals = NoLocals
    /\ pc = "start"
    /\ idx = 0

NextCss ==
    \/ Setup
    \/ ProcessStyle
    \/ SaveHtml

SpecCss == InitCss /\ [][NextCss]_vars

(***************************************************************************)
(* The form scripts (update_forms_to_formspark.py, transform_for_ghpages.py)*)
(* work on site-ghpages/index.html.  Here an attribute value is one string, *)
(* "<absent>" when the element has no such attribute, and the tests the     *)
(* scripts make on strings (lower, strip, in, startswith, the regular       *)
(* expressions) are tables over the strings of the documents below.  A      *)
(* class attribute is a text with white space in the file and a list of     *)
(* classes in the tree.                                                     *)
(***************************************************************************)
MaxKids == 2
MaxRuns == 2

SRC == "site-ghpages/index.html"
BACKUP == "site-ghpages/index.html.bak"
BACKUP2 == "site-ghpages/index.html.bak2"
FORMSPARK_PLACEHOLDER == "https://submit-form.com/YOUR_FORMSPARK_FORM_ID"

Absent == "<absent>"
\* no class attribute: class holds no class
NoClass == <<>>
\* tag.get(attr, "") and (tag.get(attr) or "")
Get(v) == IF v = Absent THEN "" ELSE v

RecaptchaSrc == "https://www.google.com/recaptcha/api.js"
JquerySrc == "/js/jquery.min.js"
GrecaptchaTxt == "grecaptcha.ready(init)"
SpinnerTxt == "gformInitSpinner(1)"
PlainTxt == "console.log(1)"

\* v.lower()
Lower(v) ==
    CASE v = "GForm" -> "gform"
      [] v = "GFORM_2" -> "gform_2"
      [] v = "G-Recaptcha-Response" -> "g-recaptcha-response"
      [] OTHER -> v

\* v.strip()
StripStr(v) == IF v = " # " THEN "#" ELSE v

\* sub in v, for the texts v the scripts test: lower-cased classes and
\* srcs, actions, and the strings of scripts
Occurs ==
    { <<"gform", "gform">>,
      <<"admin-ajax.php", "/wp-admin/admin-ajax.php">>,
      <<"recaptcha", RecaptchaSrc>>,
      <<"recaptcha", GrecaptchaTxt>>, <<"grecaptcha", GrecaptchaTxt>>,
      <<"recaptcha", "grecaptcha-badge">>, <<"grecaptcha", "grecaptcha-badge">>,
      <<"gformInitSpinner", SpinnerTxt>>,
      <<"jquery", JquerySrc>> }
In(sub, v) == <<sub, v>> \in Occurs

\* v.startswith(p), for the names of inputs
Starts(v, p) ==
    <<v, p>> \in { <<"gform_submit", "gform_">>, <<"g-recaptcha-response", "g-recaptcha">> }

\* re.match(r"^gform_\d+", v, re.I)
GformIdRe(v) == Lower(v) \in {"gform_1", "gform_2"}
\* re.compile(r"^gform_ajax_frame_", re.I).search(v)
AjaxFrameRe(v) == Lower(v) \in {"gform_ajax_frame_1"}
\* re.compile(r"grecaptcha|g-recaptcha", re.I).search(v)
BadgeRe(v) == In("grecaptcha", Lower(v)) \/ In("g-recaptcha", Lower(v))
\* re.compile(r"jquery.*\.js", re.I).search(v)
JqueryRe(v) == Lower(v) = JquerySrc

FNode(tag, id, class, name, type, src, action, method, target, string, kids) ==
    [tag |-> tag, id |-> id, class |-> class, name |-> name, type |-> type, src |-> src,
     action |-> action, method |-> method, target |-> target, string |-> string,
     kids |-> kids]

Field(tag, type, name) ==
    FNode(tag, Absent, NoClass, name, type, Absent, Absent, Absent, Absent, Absent, <<>>)
Script(id, src, string) ==
    FNode("script", id, NoClass, Absent, Absent, src, Absent, Absent, Absent, string, <<>>)
Form(id, class, action, method, target, kids) ==
    FNode("form", id, class, Absent, Absent, Absent, action, method, target, Absent, kids)

\* what a form may hold
FieldTemplates ==
    { Field("input", "text", "email"),
      Field("input", "hidden", "gform_submit"),
      Field("textarea", Absent, "g-recaptcha-response"),
      Field("input", "hidden", "G-Recaptcha-Response"),
      Field("input", "text", "_hp"),
      Script(Absent, RecaptchaSrc, Absent) }

KidLists == UNION {[1..k -> FieldTemplates] : k \in 0..MaxKids}

\* the forms of the file: a Gravity form, forms that are targets by their
\* class or their action only, and forms that are no targets
FormsOf(kids) ==
    { Form("gform_1", NoClass, "/#gf_1", "post", "gform_ajax_frame_1", kids),
      Form(Absent, <<"GForm", WS, WS, "wide">>, "/submit", "post", Absent, kids),
      Form("contact", NoClass, "/wp-admin/admin-ajax.php", "post", Absent, kids),
      Form(Absent, NoClass, Absent, Absent, Absent, kids),
      Form(Absent, NoClass, " # ", "post", Absent, kids),
      Form("search", <<"search-form">>, "/search", "get", Absent, kids),
      Form("gform_ajax", NoClass, "/go", "post", Absent, kids) }

\* what follows the form in the file
Extras ==
    { <<>>,
      <<FNode("iframe", "gform_ajax_frame_1", NoClass, "gform_ajax_frame_1", Absent, "about:blank",
              Absent, Absent, Absent, Absent, <<>>)>>,
      <<Script(Absent, RecaptchaSrc, Absent)>>,
      <<Script("jquery-core-js", JquerySrc, Absent)>>,
      <<Script(Absent, Absent, GrecaptchaTxt)>>,
      <<Script(Absent, Absent, SpinnerTxt), Script(Absent, Absent, PlainTxt)>>,
      <<FNode("div", Absent, <<"grecaptcha-badge">>, Absent, Absent, Absent, Absent, Absent,
              Absent, Absent, <<>>)>>,
      <<Form("GFORM_2", NoClass, "#", "post", Absent,
             <<Field("textarea", Absent, "g-recaptcha-response")>>)>> }

\* the contents site-ghpages/index.html may have
FormFiles == {<<f>> \o x : f \in UNION {FormsOf(k) : k \in KidLists}, x \in Extras}

\* BeautifulSoup(html, "html.parser"): the class attribute becomes the list
\* of its classes
ParseNode(n) ==
    [n EXCEPT !.class = SelectSeq(@, LAMBDA t : t # WS)]
ParseHtml(html) ==
    [i \in 1..Len(html) |->
        [ParseNode(html[i]) EXCEPT !.kids = [k \in 1..Len(@) |-> ParseNode(@[k])]]]

\* str(soup): the classes are joined with one space each
RECURSIVE JoinWs(_, _)
JoinWs(l, i) ==
    IF i > Len(l) THEN <<>>
    ELSE IF i = Len(l) THEN <<l[i]>>
    ELSE <<l[i], WS>> \o JoinWs(l, i + 1)
StrNode(n) == [n EXCEPT !.class = JoinWs(@, 1)]
StrSoup(tree) ==
    [i \in 1..Len(tree) |->
        [StrNode(tree[i]) EXCEPT !.kids = [k \in 1..Len(@) |-> StrNode(@[k])]]]

\* the tree after decompose() of every element that P holds of
Decomposed(tree, P(_)) ==
    Let(SelectSeq(tree, LAMBDA n : ~P(n)), LAMBDA t :
        [i \in 1..Len(t) |-> [t[i] EXCEPT !.kids = SelectSeq(@, LAMBDA k : ~P(k))]])

\* len(soup.find_all(P))
Found(tree, P(_)) ==
    Cardinality({i \in 1..Len(tree) : P(tree[i])})
    + Cardinality({x \in (1..Len(tree)) \X (1..(MaxKids + 1)) :
                      x[2] <= Len(tree[x[1]].kids) /\ P(tree[x[1]].kids[x[2]])})

\* the first element at or after i that is a form P holds of, or 0
NextForm(tree, i, P(_)) ==
    IF \E j \in i..Len(tree) : tree[j].tag = "form" /\ P(tree[j])
    THEN CHOOSE j \in i..Len(tree) :
             /\ tree[j].tag = "form" /\ P(tree[j])
             /\ \A h \in i..(j - 1) : ~(tree[h].tag = "form" /\ P(tree[h]))
    ELSE 0

\* name.lower() == "g-recaptcha-response" for a textarea or an input
IsRecaptchaResponse(n) ==
    n.tag \in {"textarea", "input"} /\ Lower(Get(n.name)) = "g-recaptcha-response"

\* a script that refers to reCAPTCHA by its src or in its text
IsRecaptchaScript(n) ==
    /\ n.tag = "script"
    /\ \/ In("recaptcha", Lower(Get(n.src)))
       \/ In("grecaptcha", Lower(Get(n.src)))
       \/ In("g-recaptcha", Get(n.string))
       \/ In("grecaptcha", Get(n.string))

IsAjaxFrame(n) == n.tag = "iframe" /\ n.id # Absent /\ AjaxFrameRe(n.id)

\* form.find("input", {"name": "_hp"}) finds an element
HasHoneypot(form) ==
    \E k \in 1..Len(form.kids) : form.kids[k].tag = "input" /\ form.kids[k].name = "_hp"

\* hp = soup.new_tag("input") with its attributes
Honeypot ==
    FNode("input", "_hp", NoClass, "_hp", "text", Absent, Absent, Absent, Absent, Absent, <<>>)

\* print(msg, value)
Printed(l, msg, value) == Append(l, [level |-> "print", msg |-> msg, url |-> value])

\* the remote side, the requests and the disk faults play no part in the
\* form scripts
NoNetwork ==
    /\ net = <<>>
    /\ requests = <<>>
    /\ disk = {}
    /\ ioerrors = <<>>

\* the script is started: site-ghpages/index.html holds a document or does
\* not exist; page is the document as the first run finds it
InitForms ==
    /\ files \in {(SRC :> h) : h \in FormFiles} \cup {<<>>}
    /\ page = IF SRC \in DOMAIN files THEN ParseHtml(files[SRC]) ELSE <<>>
    /\ soup = <<>>
    /\ writes = <<>>
    /\ log = <<>>
    /\ locals = NoLocals
    /\ idx = 0
    /\ NoNetwork

\* the runs that have written the file back
Runs == Cardinality({k \in 1..Len(writes) : writes[k].name = SRC})

(***************************************************************************)
(* update_forms_to_formspark.py                                            *)
(***************************************************************************)
is_target_form(form) ==
    \/ GformIdRe(Get(form.id))
    \/ \E c \in 1..Len(form.class) : In("gform", Lower(form.class[c]))
    \/ StripStr(Get(form.action)) = ""
    \/ StripStr(Get(form.action)) = "#"
    \/ In("admin-ajax.php", StripStr(Get(form.action)))

\* the honeypot of update_forms_to_formspark were it inserted without the
\* test for an input named _hp
UpdateKidsAlwaysInsert(kids) ==
    <<Honeypot>> \o SelectSeq(kids, LAMBDA k : ~IsRecaptchaResponse(k))

\* the children of a target form after the g-recaptcha-response elements
\* are removed and the honeypot is made sure of
UpdateKids(kids) ==
    Let(SelectSeq(kids, LAMBDA k : ~IsRecaptchaResponse(k)), LAMBDA rest :
        IF \E k \in 1..Len(rest) : rest[k].tag = "input" /\ rest[k].name = "_hp"
        THEN rest
        ELSE <<Honeypot>> \o rest)

\* the body of the loop for a target form
UpdateForm(form) ==
    [form EXCEPT !.action = FORMSPARK_PLACEHOLDER, !.method = "POST", !.target = Absent,
                 !.kids = UpdateKids(@)]

AnyForm(f) == TRUE

\* the backup, the read and the parse; or the exit when the file is missing
UStart ==
    /\ pc = "u_start"
    /\ IF SRC \notin DOMAIN files
       THEN /\ log' = Printed(log, "Source file not found:", SRC)
            /\ pc' = "u_exit"
            /\ UNCHANGED <<files, writes, soup, locals, idx>>
       ELSE /\ files' = (BACKUP2 :> files[SRC]) @@ files
            /\ writes' = Append(writes, [name |-> BACKUP2, content |-> files[SRC], url |-> SRC])
            /\ log' = Printed(log, "Backup created:", BACKUP2)
            /\ soup' = ParseHtml(files[SRC])
            /\ locals' = [modified |-> 0, iframes_removed |-> 0, scripts_removed |-> 0]
            /\ idx' = NextForm(soup', 1, AnyForm)
            /\ pc' = IF idx' = 0 THEN "u_iframes" ELSE "u_form"
    /\ UNCHANGED <<page, net, requests, disk, ioerrors>>

\* for form in soup.find_all("form")
UForm ==
    /\ pc = "u_form"
    /\ IF is_target_form(soup[idx])
       THEN /\ soup' = [soup EXCEPT ![idx] = UpdateForm(@)]
            /\ locals' = [locals EXCEPT !.modified = @ + 1]
       ELSE UNCHANGED <<soup, locals>>
    /\ idx' = NextForm(soup, idx + 1, AnyForm)
    /\ pc' = IF idx' = 0 THEN "u_iframes" ELSE "u_form"
    /\ UNCHANGED <<page, net, files, requests, writes, log, disk, ioerrors>>

\* remove GF AJAX iframes
UIframes ==
    /\ pc = "u_iframes"
    /\ soup' = Decomposed(soup, IsAjaxFrame)
    /\ locals' = [locals EXCEPT !.iframes_removed = Found(soup, IsAjaxFrame)]
    /\ pc' = "u_scripts"
    /\ UNCHANGED <<idx, page, net, files, requests, writes, log, disk, ioerrors>>

\* remove recaptcha/grecaptcha script tags
UScripts ==
    /\ pc = "u_scripts"
    /\ soup' = Decomposed(soup, IsRecaptchaScript)
    /\ locals' = [locals EXCEPT !.scripts_removed = Found(soup, IsRecaptchaScript)]
    /\ pc' = "u_write"
    /\ UNCHANGED <<idx, page, net, files, requests, writes, log, disk, ioerrors>>

\* the write of str(soup) and the summary
UWrite ==
    /\ pc = "u_write"
    /\ files' = (SRC :> StrSoup(soup)) @@ files
    /\ writes' = Append(writes, [name |-> SRC, content |-> StrSoup(soup), url |-> SRC])
    /\ log' = Printed(Printed(Printed(Printed(log,
                   "Forms modified:", locals.modified),
                   "GF AJAX iframes removed:", locals.iframes_removed),
                   "Recaptcha scripts removed:", locals.scripts_removed),
                   "Wrote:", SRC)
    /\ pc' = "u_done"
    /\ UNCHANGED <<idx, page, soup, net, requests, disk, ioerrors, locals>>

\* the script is run once more on the file it wrote
URunAgain ==
    /\ pc = "u_done"
    /\ Runs < MaxRuns
    /\ pc' = "u_start"
    /\ UNCHANGED <<idx, page, soup, net, files, requests, writes, log, disk, ioerrors, locals>>

InitU == InitForms /\ pc = "u_start"

NextU ==
    \/ UStart
    \/ UForm
    \/ UIframes
    \/ UScripts
    \/ UWrite
    \/ URunAgain

SpecU == InitU /\ [][NextU]_vars

(***************************************************************************)
(* transform_for_ghpages.py                                                *)
(***************************************************************************)
gf_hidden_names ==
    {"gform_ajax", "is_submit", "gform_submit", "gform_unique_id", "state",
     "gform_target_page_number", "gform_source_page_number", "gform_field_values"}

inline_keywords ==
    {"gform_ajax", "GF_AJAX_POSTBACK", "gformInitSpinner", "gform_",
     "gform_submit", "gform_target_page_number", "gform_source_page_number"}

\* the element the fragment neutralizer_js parses to
Neutralizer == Script(Absent, Absent, "neutralizer_js")

\* soup.find_all(class_=re.compile(r"grecaptcha|g-recaptcha", re.I))
IsBadge(n) == \E c \in 1..Len(n.class) : BadgeRe(n.class[c])

\* a hidden input of Gravity Forms
IsGfHidden(n) ==
    /\ n.tag = "input"
    /\ n.type = "hidden"
    /\ \/ Get(n.name) \in gf_hidden_names
       \/ Starts(Get(n.name), "gform_")
       \/ Starts(Get(n.name), "g-recaptcha")

\* an inline script with a Gravity Forms keyword in its text
IsGfInline(n) ==
    /\ n.tag = "script"
    /\ Get(n.string) # ""
    /\ \E k \in inline_keywords : In(k, n.string)

\* soup.find_all("form", id=re.compile(r"^gform_\d+", re.I))
IsGravityForm(f) == f.id # Absent /\ GformIdRe(f.id)

\* the children of a Gravity form after the loop body: the GF hidden inputs
\* are removed; then, for each g-recaptcha-response element the form still
\* holds, the element is removed and the honeypot is inserted if the form
\* has no input named _hp (the honeypot block stands inside that loop)
TransformKids(kids) ==
    Let(SelectSeq(kids, LAMBDA k : ~IsGfHidden(k)), LAMBDA rest :
    Let(SelectSeq(rest, LAMBDA k : ~IsRecaptchaResponse(k)), LAMBDA kept :
        IF Len(kept) = Len(rest) THEN rest
        ELSE IF \E k \in 1..Len(kept) : kept[k].tag = "input" /\ kept[k].name = "_hp"
        THEN kept
        ELSE <<Honeypot>> \o kept))

TransformForm(form) ==
    [form EXCEPT !.action = FORMSPARK_PLACEHOLDER, !.method = "POST", !.target = Absent,
                 !.kids = TransformKids(@)]

\* the script with id jquery-core-js, else the first script whose src
\* matches jquery.*\.js, as an index of the tree; 0 when there is none
JqTag(tree) ==
    IF \E j \in 1..Len(tree) : tree[j].tag = "script" /\ tree[j].id = "jquery-core-js"
    THEN CHOOSE j \in 1..Len(tree) :
             /\ tree[j].tag = "script" /\ tree[j].id = "jquery-core-js"
             /\ \A h \in 1..(j - 1) : ~(tree[h].tag = "script" /\ tree[h].id = "jquery-core-js")
    ELSE IF \E j \in 1..Len(tree) :
                tree[j].tag = "script" /\ tree[j].src # Absent /\ JqueryRe(tree[j].src)
    THEN CHOOSE j \in 1..Len(tree) :
             /\ tree[j].tag = "script" /\ tree[j].src # Absent /\ JqueryRe(tree[j].src)
             /\ \A h \in 1..(j - 1) :
                    ~(tree[h].tag = "script" /\ tree[h].src # Absent /\ JqueryRe(tree[h].src))
    ELSE 0

\* a step that changes the tree only, and goes on at next
TreeStep(tree, next) ==
    /\ soup' = tree
    /\ pc' = next
    /\ UNCHANGED <<idx, page, net, files, requests, writes, log, disk, ioerrors, locals>>

\* the exit when the source is missing; else the backup, the read, the parse
TStart ==
    /\ pc = "t_start"
    /\ IF SRC \notin DOMAIN files
       THEN /\ log' = Printed(log, "Error: source file not found:", SRC)
            /\ pc' = "t_exit"
            /\ UNCHANGED <<files, writes, soup>>
       ELSE /\ files' = (BACKUP :> files[SRC]) @@ files
            /\ writes' = Append(writes, [name |-> BACKUP, content |-> files[SRC], url |-> SRC])
            /\ log' = Printed(log, "Backup created:", BACKUP)
            /\ soup' = ParseHtml(files[SRC])
            /\ pc' = "t_scripts"
    /\ UNCHANGED <<idx, page, net, requests, disk, ioerrors, locals>>

\* 1) remove reCAPTCHA-related script tags
TScripts == pc = "t_scripts" /\ TreeStep(Decomposed(soup, IsRecaptchaScript), "t_badges")

\* remove grecaptcha badge elements
TBadges == pc = "t_badges" /\ TreeStep(Decomposed(soup, IsBadge), "t_responses")

\* remove textarea or input with name g-recaptcha-response
TResponses ==
    pc = "t_responses" /\ TreeStep(Decomposed(soup, IsRecaptchaResponse), "t_iframes")

\* 2) remove Gravity Forms AJAX iframes; forms = soup.find_all(...)
TIframes ==
    /\ pc = "t_iframes"
    /\ soup' = Decomposed(soup, IsAjaxFrame)
    /\ idx' = NextForm(soup', 1, IsGravityForm)
    /\ pc' = IF idx' = 0 THEN "t_inline" ELSE "t_form"
    /\ UNCHANGED <<page, net, files, requests, writes, log, disk, ioerrors, locals>>

\* 3) for form in forms
TForm ==
    /\ pc = "t_form"
    /\ soup' = [soup EXCEPT ![idx] = TransformForm(@)]
    /\ idx' = NextForm(soup, idx + 1, IsGravityForm)
    /\ pc' = IF idx' = 0 THEN "t_inline" ELSE "t_form"
    /\ UNCHANGED <<page, net, files, requests, writes, log, disk, ioerrors, locals>>

\* 4) remove inline scripts that are GF handlers
TInline == pc = "t_inline" /\ TreeStep(Decomposed(soup, IsGfInline), "t_neutralizer")

\* 5) insert the neutralizer after the jquery script, else at the end
TNeutralizer ==
    /\ pc = "t_neutralizer"
    /\ \E j \in {JqTag(soup)} :
           /\ soup' = IF j = 0 THEN Append(soup, Neutralizer)
                      ELSE SubSeq(soup, 1, j) \o <<Neutralizer>> \o From(soup, j + 1)
           /\ locals' = [inserted |-> j # 0]
    /\ pc' = "t_write"
    /\ UNCHANGED <<idx, page, net, files, requests, writes, log, disk, ioerrors>>

\* write updated HTML
TWrite ==
    /\ pc = "t_write"
    /\ files' = (SRC :> StrSoup(soup)) @@ files
    /\ writes' = Append(writes, [name |-> SRC, content |-> StrSoup(soup), url |-> SRC])
    /\ log' = Printed(log, "Transformed:", SRC)
    /\ pc' = "t_files"
    /\ UNCHANGED <<idx, page, soup, net, requests, disk, ioerrors, locals>>

\* 6) and 7) the workflow file and the README
TFiles ==
    /\ pc = "t_files"
    /\ files' = (".github/workflows/gh-pages.yml" :> <<"workflow_content">>)
                    @@ ("site-ghpages/README.md" :> <<"readme_content">>) @@ files
    /\ writes' = writes \o
           <<[name |-> ".github/workflows/gh-pages.yml", content |-> <<"workflow_content">>,
              url |-> SRC],
             [name |-> "site-ghpages/README.md", content |-> <<"readme_content">>, url |-> SRC]>>
    /\ log' = Printed(Printed(Printed(log,
                   "Created workflow:", ".github/workflows/gh-pages.yml"),
                   "Created README:", "site-ghpages/README.md"),
                   "Done.", "")
    /\ pc' = "t_done"
    /\ UNCHANGED <<idx, page, soup, net, requests, disk, ioerrors, locals>>

InitT == InitForms /\ pc = "t_start"

NextT ==
    \/ TStart
    \/ TScripts
    \/ TBadges
    \/ TResponses
    \/ TIframes
    \/ TForm
    \/ TInline
    \/ TNeutralizer
    \/ TWrite
    \/ TFiles

SpecT == InitT /\ [][NextT]_vars

(***************************************************************************)
(* submit_personas.py                                                      *)
(***************************************************************************)
MaxPersonas == 2

DEFAULT_PERSONA_JSON == "scripts/../.tmp/sample_answers.json"
DEFAULT_ENDPOINT == "https://submit-form.com/CYfZeVuMy"
DEFAULT_HIDDEN_EMAIL == "mario.guerra@gmail.com"
MarkdownPath == ".tmp/sample_answers.md"

\* json_path.lower().endswith('.json')
EndsWithJson(path) == path = DEFAULT_PERSONA_JSON

\* the objects of the JSON file: a key may be missing
Items ==
    [id : {1, 2}, name : {"Ann"}, email : {Absent}, phone : {"555"},
     preferred_day : {"Mon"}, preferred_time : {"AM"},
     appointment_types : {<<>>, <<"consult", "followup">>},
     message : {"hi"}, questionnaire_responses : {Absent, "q1"}]

ItemLists == UNION {[1..n -> Items] : n \in 0..MaxPersonas}

\* the values of --ids after split(','), with what strip() and int() make
\* of each part: 0 stands for a part that is empty or not a number
IdsArgs == {<<"1">>, <<"1", " 2">>, <<"2", "x">>, <<"", " ">>}
IntOf(part) == IF part = "1" THEN 1 ELSE IF part \in {"2", " 2"} THEN 2 ELSE 0
Wanted(parts) == {IntOf(parts[k]) : k \in 1..Len(parts)} \ {0}

\* the parsed command line: exactly one of --all and --ids is given
Options ==
    {o \in [json_path : {DEFAULT_PERSONA_JSON, MarkdownPath}, all : BOOLEAN,
            ids : IdsArgs \cup {<<>>}, dry_run : BOOLEAN,
            endpoint : {DEFAULT_ENDPOINT}, form : {1, 3}] :
        o.all <=> o.ids = <<>>}

\* what a POST comes to: an exception, or a response with a status
Outcomes == [raised : {TRUE}, status : {0}] \cup [raised : {FALSE}, status : {200, 299, 300}]

Persona(item) ==
    [id |-> item.id, name |-> Get(item.name), email |-> Get(item.email),
     phone |-> Get(item.phone), preferred_day |-> Get(item.preferred_day),
     preferred_time |-> Get(item.preferred_time),
     appointment_types |-> item.appointment_types,
     message |-> Get(item.message) \o
                 (IF Get(item.questionnaire_responses) # ""
                  THEN "\n\nQuestionnaire Responses:\n" \o item.questionnaire_responses
                  ELSE "")]

load_personas(obj) == [k \in 1..Len(obj) |-> Persona(obj[k])]

IsSubmit(form_number) == IF form_number = 1 THEN "is_submit_1" ELSE "is_submit_3"

\* the data of build_payload, as the list of its pairs
build_payload(persona, form_number) ==
    << <<"name", persona.name>>, <<"phone", persona.phone>>, <<"email", persona.email>>,
       <<"preferred_day", persona.preferred_day>>,
       <<"preferred_time", persona.preferred_time>> >>
    \o [k \in 1..Len(persona.appointment_types) |->
           <<"appointment_types[]", persona.appointment_types[k]>>]
    \o << <<"message", persona.message>>, <<"_hp", "">>, <<"_email", DEFAULT_HIDDEN_EMAIL>>,
          <<IsSubmit(form_number), "1">> >>

\* submit_one without the early return of the dry run
submit_oneAlwaysPosts(endpoint, data, dry_run, have_requests, out) ==
    IF ~have_requests
    THEN [ok |-> FALSE, msg |-> "requests package not available", data |-> <<>>, posted |-> FALSE]
    ELSE IF out.raised
    THEN [ok |-> FALSE, msg |-> "str(e)", data |-> <<>>, posted |-> TRUE]
    ELSE IF 200 <= out.status /\ out.status < 300
    THEN [ok |-> TRUE, msg |-> "Status OK", data |-> <<out.status>>, posted |-> TRUE]
    ELSE [ok |-> FALSE, msg |-> "Status", data |-> <<out.status>>, posted |-> TRUE]

\* (ok, msg) of submit_one, with whether the POST was issued; out is what
\* the POST comes to if it is issued
submit_one(endpoint, data, dry_run, have_requests, out) ==
    IF dry_run
    THEN [ok |-> TRUE, msg |-> "DRY_RUN payload:", data |-> data, posted |-> FALSE]
    ELSE IF ~have_requests
    THEN [ok |-> FALSE, msg |-> "requests package not available", data |-> <<>>, posted |-> FALSE]
    ELSE IF out.raised
    THEN [ok |-> FALSE, msg |-> "str(e)", data |-> <<>>, posted |-> TRUE]
    ELSE IF 200 <= out.status /\ out.status < 300
    THEN [ok |-> TRUE, msg |-> "Status OK", data |-> <<out.status>>, posted |-> TRUE]
    ELSE [ok |-> FALSE, msg |-> "Status", data |-> <<out.status>>, posted |-> TRUE]

\* the selection of main
Selection(opts, personas) ==
    IF opts.all THEN personas
    ELSE SelectSeq(personas, LAMBDA p : p.id \in Wanted(opts.ids))

\* a line on stderr
Errored(l, msg, value) == Append(l, [level |-> "stderr", msg |-> msg, url |-> value])

\* the process ends with a message on stderr and an exit status
Exit(msg, value, status) ==
    /\ log' = Errored(log, msg, value)
    /\ locals' = [locals EXCEPT !.status = status]
    /\ pc' = "p_exit"
    /\ UNCHANGED idx

\* main up to the loop: the arguments, the file, the selection
PStart ==
    /\ pc = "p_start"
    /\ IF locals.opts.json_path \notin DOMAIN files
       THEN Exit("Persona JSON not found at", locals.opts.json_path, 2)
       ELSE IF ~EndsWithJson(locals.opts.json_path)
       THEN Exit("This tool only accepts JSON input. Provide a .json file via --json", "", 1)
       ELSE IF files[locals.opts.json_path] = <<>>
       THEN Exit("AttributeError: 'Namespace' object has no attribute 'md'", "", 1)
       ELSE \E personas \in {load_personas(files[locals.opts.json_path])} :
            \E selected \in {Selection(locals.opts, personas)} :
               IF selected = <<>>
               THEN Exit("No matching personas selected", "", 1)
               ELSE /\ log' = Printed(log, "Preparing to submit",
                                      <<Len(selected), locals.opts.endpoint, locals.opts.form>>)
                    /\ locals' = [locals EXCEPT !.personas = personas, !.selected = selected]
                    /\ idx' = 1
                    /\ pc' = "p_loop"
    /\ UNCHANGED <<page, soup, net, files, requests, writes, disk, ioerrors>>

\* PSubmit with the loop left at the first failed submission
PSubmitStopsAtFailure ==
    /\ pc = "p_loop"
    /\ \E p \in {locals.selected[idx]} :
       \E data \in {build_payload(p, locals.opts.form)} :
       \E out \in Outcomes :
       \E r \in {submit_one(locals.opts.endpoint, data, locals.opts.dry_run,
                        locals.have_requests, out)} :
          /\ r.posted \/ out = [raised |-> TRUE, status |-> 0]
          /\ requests' = IF r.posted
                         THEN Append(requests, [url |-> locals.opts.endpoint, data |-> data])
                         ELSE requests
          /\ log' = Append(log, [level |-> IF r.ok THEN "print" ELSE "stderr",
                                  msg |-> IF r.ok THEN "[OK]" ELSE "[FAIL]",
                                  url |-> [id |-> p.id, name |-> p.name,
                                           msg |-> r.msg, data |-> r.data]])
          /\ locals' = [locals EXCEPT !.any_fail = @ \/ ~r.ok]
    /\ idx' = idx + 1
    /\ pc' = IF idx = Len(locals.selected) \/ locals'.any_fail THEN "p_end" ELSE "p_loop"
    /\ UNCHANGED <<page, soup, net, files, writes, disk, ioerrors>>

\* one turn of the loop of main; when no POST is issued there is nothing
\* for it to come to, and one outcome stands for all.  time.sleep(opts.delay)
\* changes nothing: --delay is taken not to be negative
PSubmit ==
    /\ pc = "p_loop"
    /\ \E p \in {locals.selected[idx]} :
       \E data \in {build_payload(p, locals.opts.form)} :
       \E out \in Outcomes :
       \E r \in {submit_one(locals.opts.endpoint, data, locals.opts.dry_run,
                        locals.have_requests, out)} :
          /\ r.posted \/ out = [raised |-> TRUE, status |-> 0]
          /\ requests' = IF r.posted
                         THEN Append(requests, [url |-> locals.opts.endpoint, data |-> data])
                         ELSE requests
          /\ log' = Append(log, [level |-> IF r.ok THEN "print" ELSE "stderr",
                                  msg |-> IF r.ok THEN "[OK]" ELSE "[FAIL]",
                                  url |-> [id |-> p.id, name |-> p.name,
                                           msg |-> r.msg, data |-> r.data]])
          /\ locals' = [locals EXCEPT !.any_fail = @ \/ ~r.ok]
    /\ idx' = idx + 1
    /\ pc' = IF idx = Len(locals.selected) THEN "p_end" ELSE "p_loop"
    /\ UNCHANGED <<page, soup, net, files, writes, disk, ioerrors>>

\* the exit status after the loop
PExit ==
    /\ pc = "p_end"
    /\ locals' = [locals EXCEPT !.status = IF locals.any_fail THEN 1 ELSE 0]
    /\ pc' = "p_exit"
    /\ UNCHANGED <<idx, page, soup, net, files, requests, writes, log, disk, ioerrors>>

\* main is called: a command line, the files of the disk, and whether the
\* requests package could be imported
InitP ==
    /\ pc = "p_start"
    /\ idx = 0
    /\ page = <<>>
    /\ soup = <<>>
    /\ NoNetwork
    /\ \E obj \in ItemLists :
          files \in {<<>>, (DEFAULT_PERSONA_JSON :> obj) @@ (MarkdownPath :> obj)}
    /\ writes = <<>>
    /\ log = <<>>
    /\ \E o \in Options : \E have \in BOOLEAN :
          locals = [opts |-> o, have_requests |-> have, personas |-> <<>>,
                    selected |-> <<>>, any_fail |-> FALSE, status |-> -1]

NextP ==
    \/ PStart
    \/ PSubmit
    \/ PExit

SpecP == InitP /\ [][NextP]_vars

(***************************************************************************)
(* dashboard.py: the Streamlit session.  The script runs from its top on   *)
(* every event of the browser; st.session_state outlives the runs.         *)
(***************************************************************************)
MaxTicks == 2

\* the seconds of the cache of the leads, and of a day (timedelta keeps
\* days and seconds apart)
CacheSeconds == 300
DaySeconds == 86400

\* how far the clock may move between two runs
Jumps == {0, 299, 300, DaySeconds}

pages == <<"Dashboard", "Lead Management", "Lead Details", "Analytics">>

\* None, for the values of the session that are strings
NoneStr == "<None>"

\* the Email column of the frame: of the sample data, of the sheet
EmailsOf(df) ==
    IF df = "sample" THEN {"john.doe@email.com"} ELSE {"ann@email.com"}

\* what the read of the sheet comes to: records, no record, an exception
SheetOutcomes == {"rows", "empty", "error"}

\* the events of the browser that start a run, after a run that showed
\* shown (the login form, a page with its sidebar, or nothing before a
\* rerun) with the frame df
Events(shown, df, back) ==
    {[kind |-> "none", arg |-> ""]}
    \cup (IF shown = "login"
          THEN {[kind |-> "login", arg |-> a] : a \in {"ok", "bad"}}
          ELSE {})
    \cup (IF \E k \in 1..Len(pages) : pages[k] = shown
          THEN {[kind |-> "nav", arg |-> pages[k]] : k \in 1..Len(pages)}
               \cup {[kind |-> "refresh", arg |-> ""], [kind |-> "logout", arg |-> ""]}
          ELSE {})
    \cup (IF shown \in {"Dashboard", "Lead Management"}
          THEN {[kind |-> "open", arg |-> e] : e \in EmailsOf(df)}
          ELSE {})
    \cup (IF shown = "Lead Details" /\ back
          THEN {[kind |-> "back", arg |-> ""]}
          ELSE {})

\* (now - last_refresh).seconds, for a last_refresh that is not after now
TimedeltaSeconds(d) == d % DaySeconds

\* load_leads_data: the session after it, the frame it returns, and whether
\* the sheet was read; out is what the read comes to if it is made
load_leads_data(ss, force_refresh, out) ==
    IF ~ss.gc
    THEN [ss |-> ss, df |-> "sample", read |-> FALSE, cached |-> FALSE]
    ELSE IF /\ ~force_refresh
            /\ ss.leads_data # NoneStr
            /\ ss.last_refresh # <<>>
            /\ TimedeltaSeconds(ss.now - ss.last_refresh[1]) < CacheSeconds
    THEN [ss |-> ss, df |-> ss.leads_data, read |-> FALSE, cached |-> TRUE]
    ELSE IF out = "rows"
    THEN [ss |-> [ss EXCEPT !.leads_data = "sheet", !.last_refresh = <<ss.now>>],
          df |-> "sheet", read |-> TRUE, cached |-> FALSE]
    ELSE [ss |-> ss, df |-> "sample", read |-> TRUE, cached |-> FALSE]

\* the run ends; shown is what it leaves on the screen
EndRun(ss, shown, back) ==
    /\ locals' = [ss EXCEPT !.shown = shown, !.back = back]
    /\ pc' = "d_idle"

\* st.rerun(): the run ends and the script runs again, without an event
Rerun(ss) == EndRun(ss, "rerun", FALSE)

\* nothing of the dashboard is in the other variables
DFrame == UNCHANGED <<idx, page, soup, net, files, requests, writes, log, disk, ioerrors>>

\* an event of the browser starts a run: LeadDashboard() and run()
DStart ==
    /\ pc = "d_idle"
    /\ \E ev \in Events(locals.shown, locals.df, locals.back) :
       \E j \in Jumps :
          /\ j = 0 \/ locals.ticks < MaxTicks
          /\ locals' = [locals EXCEPT !.event = ev, !.now = @ + j,
                                      !.ticks = IF j = 0 THEN @ ELSE @ + 1,
                                      !.loaded = FALSE, !.read = FALSE, !.cached = FALSE,
                                      !.rendered = "none"]
    /\ pc' = "d_auth"
    /\ DFrame

\* authenticate()
DAuth ==
    /\ pc = "d_auth"
    /\ IF locals.authenticated
       THEN locals' = locals /\ pc' = "d_load"
       ELSE IF locals.stauth
       THEN \E authentication_status \in {"True", "False", "None"} :
               IF authentication_status = "True"
               THEN locals' = [locals EXCEPT !.authenticated = TRUE] /\ pc' = "d_load"
               ELSE EndRun(locals, "login widget", FALSE)
       ELSE IF locals.event = [kind |-> "login", arg |-> "ok"]
       THEN Rerun([locals EXCEPT !.authenticated = TRUE])
       ELSE EndRun(locals, "login", FALSE)
    /\ DFrame

\* df = self.load_leads_data(); when the sheet is not read there is nothing
\* for the read to come to, and one outcome stands for all
DLoad ==
    /\ pc = "d_load"
    /\ \E out \in SheetOutcomes :
       \E r \in {load_leads_data(locals, FALSE, out)} :
          /\ r.read \/ out = "rows"
          /\ locals' = [r.ss EXCEPT !.df = r.df, !.loaded = TRUE, !.read = r.read,
                                    !.cached = r.cached]
    /\ pc' = "d_sidebar"
    /\ DFrame

\* render_sidebar without the reset of the selected lead
DSidebarKeepsLead ==
    /\ pc = "d_sidebar"
    /\ IF locals.event.kind = "nav"
       THEN Rerun([locals EXCEPT !.current_page = locals.event.arg])
       ELSE IF locals.event.kind = "refresh"
       THEN Rerun([locals EXCEPT !.leads_data = NoneStr, !.last_refresh = <<>>])
       ELSE IF locals.event.kind = "logout"
       THEN Rerun([locals EXCEPT !.authenticated = FALSE])
       ELSE locals' = locals /\ pc' = "d_page"
    /\ DFrame

\* render_header() and render_sidebar()
DSidebar ==
    /\ pc = "d_sidebar"
    /\ IF locals.event.kind = "nav"
       THEN Rerun([locals EXCEPT !.current_page = locals.event.arg,
                                 !.selected_lead_email =
                                     IF locals.event.arg # "Lead Details" THEN NoneStr ELSE @])
       ELSE IF locals.event.kind = "refresh"
       THEN Rerun([locals EXCEPT !.leads_data = NoneStr, !.last_refresh = <<>>])
       ELSE IF locals.event.kind = "logout"
       THEN Rerun([locals EXCEPT !.authenticated = FALSE])
       ELSE locals' = locals /\ pc' = "d_page"
    /\ DFrame

\* the page dispatch: render_dashboard_home, render_lead_management,
\* render_lead_details, render_analytics
DPage ==
    /\ pc = "d_page"
    /\ IF /\ locals.current_page \in {"Dashboard", "Lead Management"}
          /\ locals.event.kind = "open"
          /\ locals.event.arg \in EmailsOf(locals.df)
       THEN Rerun([locals EXCEPT !.selected_lead_email = locals.event.arg,
                                 !.current_page = "Lead Details"])
       ELSE IF /\ locals.current_page = "Lead Details"
               /\ locals.selected_lead_email \in EmailsOf(locals.df)
               /\ locals.event.kind = "back"
       THEN Rerun([locals EXCEPT !.current_page = "Lead Management",
                                 !.selected_lead_email = NoneStr])
       ELSE EndRun([locals EXCEPT !.rendered = locals.current_page],
                   locals.current_page,
                   /\ locals.current_page = "Lead Details"
                   /\ locals.selected_lead_email \in EmailsOf(locals.df))
    /\ DFrame

\* the session of a browser that has run nothing yet, as
\* init_session_state makes it, with the secrets of the deployment (sheet
\* credentials or not, streamlit-authenticator or the login form)
InitD ==
    /\ pc = "d_idle"
    /\ idx = 0
    /\ page = <<>>
    /\ soup = <<>>
    /\ NoNetwork
    /\ files = <<>>
    /\ writes = <<>>
    /\ log = <<>>
    /\ \E gc \in BOOLEAN : \E stauth \in BOOLEAN :
          locals = [authenticated |-> FALSE, current_page |-> "Dashboard",
                    selected_lead_email |-> NoneStr, leads_data |-> NoneStr,
                    last_refresh |-> <<>>,
                    gc |-> gc, stauth |-> stauth, now |-> 0, ticks |-> 0,
                    event |-> [kind |-> "none", arg |-> ""], shown |-> "none",
                    back |-> FALSE, df |-> "sample", loaded |-> FALSE, read |-> FALSE,
                    cached |-> FALSE, rendered |-> "none"]

NextD ==
    \/ DStart
    \/ DAuth
    \/ DLoad
    \/ DSidebar
    \/ DPage

SpecD == InitD /\ [][NextD]_vars

(***************************************************************************)
(* What the claims are stated in.                                          *)
(***************************************************************************)
Count(s, x) == Cardinality({i \in 1..Len(s) : s[i] = x})

\* the rel values of a link whose target belongs to the snapshot
ResourceRels == {"stylesheet", "icon", "shortcut icon", "manifest", "apple-touch-icon",
                 "preload", "dns-prefetch", "preconnect"}

\* the raw value of the reference an element of the page holds, or None:
\* the href of a resource link, the src of a script, the src of an img or
\* else the first candidate of its srcset
RawRef(e) ==
    CASE e.tag = "link" ->
            IF \E x \in ResourceRels : HasRel(e, x) THEN e.href ELSE NoneV
      [] e.tag = "script" -> e.src
      [] e.tag = "img" ->
            IF Truthy(e.src) \/ ~Truthy(e.srcset) THEN e.src ELSE FirstCandidate(e.srcset)
      [] OTHER -> NoneV

\* the attribute a rewrite of the element sets
RefAttr(e) == IF e.tag = "link" THEN e.href ELSE e.src

\* the raw values that resolve to Skip: empty, fragment-only, data:
SkipRaw(v) == v = <<>> \/ At(v, 1) = HASH \/ At(v, 1) = DATA

\* the elements of the page that refer to a resource to fetch
Refs == {i \in 1..Len(page) : RawRef(page[i]) # NoneV /\ ~SkipRaw(RawRef(page[i]))}

\* the URL element i of the page refers to
RefUrl(i) == RequestUrl(urljoin(PageUrl, RawRef(page[i])))

\* the writes of fetched resources (the save of the tree is the other one)
ResourceWrites == {i \in 1..Len(writes) : writes[i].url # <<"soup">>}

\* the origin of the last write of file f among ws
LastWriter(ws, f) ==
    ws[CHOOSE i \in 1..Len(ws) :
           ws[i].name = f /\ \A j \in (i + 1)..Len(ws) : ws[j].name # f].url

ErrorsFor(u) ==
    Cardinality({i \in 1..Len(log) : log[i].level = "error" /\ RequestUrl(log[i].url) = u})

(***************************************************************************)
(* The claims.                                                             *)
(***************************************************************************)

\* C1: no URL is requested more than once in a session, and every file
\* written for one URL has the same name (the references to a URL share one
\* retrieval and one local filename).
C1_OneRetrievalPerUrl ==
    /\ \A u \in SiteUrls : Count(requests, u) <= 1
    /\ \A i, j \in ResourceWrites :
           writes[i].url = writes[j].url => writes[i].name = writes[j].name

\* C2: the filenames given to fetched resources of distinct URLs are
\* pairwise distinct.
C2_DistinctFilenames ==
    \A i, j \in ResourceWrites :
        writes[i].url # writes[j].url => writes[i].name # writes[j].name

\* C3: with a writable disk, the session ends with index.html written,
\* every reference to a resource that answers rewritten to a local file, and
\* every reference to one that does not answer left as it was.
C3_PartialFailureIsolation ==
    (pc = "done" /\ disk = {}) =>
        /\ <<"index.html">> \in DOMAIN files
        /\ \A i \in Refs :
               IF net[RefUrl(i)] = "ok"
               THEN RefAttr(soup[i]) \in DOMAIN files
               ELSE RefAttr(soup[i]) = RefAttr(page[i])

\* C4: in the saved document every resource attribute is its original
\* value, or the name of a file that holds what was written for the URL the
\* attribute referred to (the disk being writable).
C4_NoDanglingOrForeignFile ==
    (pc = "done" /\ disk = {}) =>
        \A i \in 1..Len(page) :
            \/ RefAttr(soup[i]) = RefAttr(page[i])
            \/ /\ RefAttr(soup[i]) \in DOMAIN files
               /\ LastWriter(writes, RefAttr(soup[i]))
                      = RequestUrl(urljoin(PageUrl, RawRef(page[i])))

\* C5: the iteration over an element whose reference is empty,
\* fragment-only or a data: URI issues no request and leaves the element
\* as it was.
C5_SkipNeverFetched ==
    [][(/\ pc \in {"css", "script", "img", "link"}
        /\ RawRef(page[idx]) # NoneV
        /\ SkipRaw(RawRef(page[idx])))
       => (requests' = requests /\ soup'[idx] = page[idx])]_vars

\* C6: for the page that links a.css, where a.css imports b.css and b.css
\* imports a.css, the session ends with each of the two requested once and
\* with both stored texts importing the other by its local filename.
C6_ImportCycle ==
    (pc = "done" /\ net = [u \in SiteUrls |-> "ok"] /\ disk = {}
        /\ page = <<Link("stylesheet", <<SL, "a.css">>)>>) =>
        /\ Count(requests, UrlA) = 1
        /\ Count(requests, UrlB) = 1
        /\ <<"a.css">> \in DOMAIN files /\ <<"b.css">> \in DOMAIN files
        /\ Contains(files[<<"a.css">>], <<"b.css">>)
        /\ ~Contains(files[<<"a.css">>], <<SL, "b.css">>)
        /\ Contains(files[<<"b.css">>], <<"a.css">>)
        /\ ~Contains(files[<<"b.css">>], <<SL, "a.css">>)

\* C7: for the page that links a.css, which uses url(/bg.png), and holds
\* <img src="/bg.png">, bg.png is requested once, and the stored stylesheet
\* and the img name the same local file.
C7_SharedBetweenCssAndMarkup ==
    (pc = "done" /\ net = [u \in SiteUrls |-> "ok"] /\ disk = {}
        /\ page = <<Link("stylesheet", <<SL, "a.css">>), Img(<<SL, "bg.png">>, NoneV)>>) =>
        /\ Count(requests, UrlBg) = 1
        /\ Contains(files[<<"a.css">>], <<URLP>> \o soup[2].src \o <<RP>>)
        /\ soup[2].src \in DOMAIN files

\* C8: a reference to a URL that was requested and answered with a non-2xx
\* status keeps its value, no file is written for the URL, and exactly one
\* failure is recorded for it.
C8_HttpErrorRecordedOnce ==
    (pc = "done" /\ disk = {}) =>
        \A i \in Refs :
            (net[RefUrl(i)] = "http" /\ Count(requests, RefUrl(i)) >= 1) =>
                /\ RefAttr(soup[i]) = RefAttr(page[i])
                /\ \A k \in 1..Len(writes) : writes[k].url # RefUrl(i)
                /\ ErrorsFor(RefUrl(i)) = 1

\* C9: a URL whose retrieval failed is not requested again.
C9_FailedIsTerminal ==
    \A u \in SiteUrls : net[u] # "ok" => Count(requests, u) <= 1

\* C10: a file, once written, is not overwritten with the content of
\* another resource or with the serialized document.
C10_NoOverwrite ==
    [][\A f \in DOMAIN files :
           files'[f] = files[f] \/ LastWriter(writes', f) = LastWriter(writes, f)]_vars

\* the success message has been emitted
Succeeded == \E k \in 1..Len(log) : log[k].msg = "Webpage cloned successfully"

\* the failure of the session has been reported
Reported == \E k \in 1..Len(log) : log[k].level = "error" /\ log[k].msg = "Error"

\* C11: once the output directory could not be created or a file could not
\* be written, the session is over: it has stopped at that failure, has
\* reported it and has not emitted the success message.
C11_WriteFailureIsFatal ==
    ioerrors # <<>> =>
        /\ pc = "done"
        /\ Len(ioerrors) = 1
        /\ Reported
        /\ ~Succeeded

\* a step of the session that cancels it: the session is over, no retrieval
\* was issued in the step, and the log ends with the cancellation
CancelStep ==
    /\ Next
    /\ pc' = "done"
    /\ requests' = requests
    /\ log' # <<>>
    /\ log'[Len(log')].msg = "Cancelled"

\* C12: as long as the session is not over it can be cancelled: a step is
\* possible that ends it with its pending retrievals abandoned and the
\* cancellation recorded.
C12_CancelExposed ==
    pc # "done" => ENABLED CancelStep

\* the tree has been serialized to index.html
IndexWritten == \E k \in 1..Len(writes) : writes[k].url = <<"soup">>

\* the log entries that end a retrieval in failure
FailureEntries ==
    {k \in 1..Len(log) : log[k].msg \in {"Failed to download resource", "Failed to process CSS"}}

\* C13: a step that leaves index.html serialized issues no retrieval and
\* rewrites nothing; every pass is over, every retrieval issued has ended in
\* a stored file or in a logged failure, and the file holds the tree as the
\* passes left it.
C13_SerializedLast ==
    [][IndexWritten' =>
          /\ requests' = requests
          /\ soup' = soup
          /\ pc' = "done"
          /\ Len(requests') = Cardinality(ResourceWrites') + Cardinality(FailureEntries')
          /\ files'[<<"index.html">>] = Prettify(soup', 1)]_vars

\* C13 witness: index.html is written after two retrievals, one of which
\* failed, and after a rewrite of the tree.
C13_Witness ==
    /\ IndexWritten
    /\ Len(requests) >= 2
    /\ FailureEntries # {}
    /\ soup # page

\* the text process_css was given and the text it returned, for the page of
\* one style element
CssIn == page[1].string
CssOut == soup[1].string

\* process_css has returned
CssProcessed ==
    /\ page[1].tag = "style"
    /\ \E k \in 1..Len(log) : log[k].msg = "Processing CSS from"

\* the capture group of each match: the reference as written
Groups(ms) == [k \in 1..Len(ms) |-> ms[k].g]

\* the text a reference g is to become: its local filename when its
\* retrieval succeeds, itself when the retrieval fails or g is skipped
Local(g) ==
    Let(download_resource(urljoin(PageUrl, g), net, World).ret, LAMBDA r :
        IF SkipRaw(g) \/ r = NoneV THEN g ELSE r)

\* the url(...) matches of the text that lie in no rewritten @import
UrlRefs(s) ==
    SelectSeq(UrlMatches(s, 1), LAMBDA m :
        \A k \in 1..Len(ImportMatches(s, 1)) :
            \/ Local(ImportMatches(s, 1)[k].g) = ImportMatches(s, 1)[k].g
            \/ ImportMatches(s, 1)[k].end <= m.start
            \/ m.end <= ImportMatches(s, 1)[k].start)

\* C18: in the text process_css returns, the references of the @import and
\* url(...) matches are, match by match, those of the input, each replaced
\* by its local filename when its retrieval succeeded and as written in
\* the input when it failed or was skipped.
C18_MatchRewrittenIffFetched ==
    CssProcessed =>
        /\ Groups(ImportMatches(CssOut, 1))
               = [k \in 1..Len(ImportMatches(CssIn, 1)) |-> Local(ImportMatches(CssIn, 1)[k].g)]
        /\ Groups(UrlMatches(CssOut, 1))
               = [k \in 1..Len(UrlRefs(CssIn)) |-> Local(UrlRefs(CssIn)[k].g)]

\* the positions of the text inside an @import or url(...) match
Covered(s) ==
    {i \in 1..Len(s) :
        \/ \E k \in 1..Len(ImportMatches(s, 1)) :
               ImportMatches(s, 1)[k].start <= i /\ i < ImportMatches(s, 1)[k].end
        \/ \E k \in 1..Len(UrlMatches(s, 1)) :
               UrlMatches(s, 1)[k].start <= i /\ i < UrlMatches(s, 1)[k].end}

\* the text outside the positions cov, as the pieces between them
RECURSIVE Segs(_, _, _, _)
Segs(t, cov, i, cur) ==
    IF i > Len(t) THEN <<cur>>
    ELSE IF i \notin cov THEN Segs(t, cov, i + 1, Append(cur, t[i]))
    ELSE IF (i - 1) \in cov THEN Segs(t, cov, i + 1, cur)
    ELSE <<cur>> \o Segs(t, cov, i + 1, <<>>)

\* out holds the pieces segs[k..] in order at or after p, the first piece
\* at its start and the last at its end
RECURSIVE FitsFrom(_, _, _, _)
FitsFrom(out, p, segs, k) ==
    IF k > Len(segs) THEN TRUE
    ELSE \E q \in (IF k = 1 THEN {1} ELSE p..(Len(out) + 1)) :
             /\ StartsAt(out, q, segs[k])
             /\ k = Len(segs) => q + Len(segs[k]) - 1 = Len(out)
             /\ FitsFrom(out, q + Len(segs[k]), segs, k + 1)

\* C19: the text process_css returns is the input with only the matched
\* spans replaced: the pieces of the input outside the @import and url(...)
\* matches stand in it unchanged and in order.
C19_OutsideSpansUnchanged ==
    CssProcessed =>
        FitsFrom(CssOut, 1, Segs(CssIn, Covered(CssIn), 1, <<>>), 1)

\* C17: once a file has been written to the output directory, no retrieval
\* is issued any more (every write comes after every retrieval).
C17_WritesAfterAllRetrievals ==
    [][writes # <<>> => requests' = requests]_vars

\* the URL a stylesheet link of the page refers to
SheetUrl(e) == RequestUrl(urljoin(PageUrl, e.href))

\* C20: when the stylesheet of a <link rel="stylesheet"> was not retrieved
\* with a success status, or its file could not be written, the href is
\* left as it was and no file is written for the stylesheet.
C20_StylesheetAllOrNothing ==
    pc = "done" =>
        \A i \in 1..Len(page) :
            (/\ InPass("css", page[i])
             /\ Truthy(page[i].href)
             /\ \/ net[SheetUrl(page[i])] # "ok"
                \/ CssFilename(SheetUrl(page[i])) \in disk) =>
                /\ soup[i].href = page[i].href
                /\ \A k \in 1..Len(writes) : writes[k].url # SheetUrl(page[i])

\* the document site-ghpages/index.html holds
Result == ParseHtml(files[SRC])

\* the inputs named _hp a form holds
HpCount(f) ==
    Cardinality({k \in 1..Len(f.kids) : f.kids[k].tag = "input" /\ f.kids[k].name = "_hp"})

\* a form submits to Formspark: the placeholder action, POST, no target, no
\* g-recaptcha-response element
SubmitsToFormspark(f) ==
    /\ f.action = FORMSPARK_PLACEHOLDER
    /\ f.method = "POST"
    /\ f.target = Absent
    /\ \A k \in 1..Len(f.kids) : ~IsRecaptchaResponse(f.kids[k])

Cleaned(f) ==
    [f EXCEPT !.kids = SelectSeq(@, LAMBDA k : ~IsRecaptchaScript(k) /\ ~IsAjaxFrame(k))]

C14_HoneypotInEveryGravityForm ==
    pc = "t_done" =>
        \A i \in 1..Len(page) :
            (page[i].tag = "form" /\ IsGravityForm(page[i])) => HasHoneypot(Result[i])

\* the lines that report a persona, in the order they were printed
Reports == SelectSeq(log, LAMBDA e : e.msg \in {"[OK]", "[FAIL]"})

\* the payload holds the pair
Holds(data, key, value) == \E k \in 1..Len(data) : data[k] = <<key, value>>

\* C16: with --dry-run no request is issued, and when the loop is over every
\* selected persona has been reported OK with its payload; the payload holds
\* _hp with an empty value, _email, and is_submit_N for the form number N.
C16_DryRunSendsNothing ==
    locals.opts.dry_run =>
        /\ requests = <<>>
        /\ \A k \in 1..Len(Reports) :
              /\ Reports[k].msg = "[OK]"
              /\ Reports[k].level = "print"
              /\ Reports[k].url.id = locals.selected[k].id
              /\ Reports[k].url.name = locals.selected[k].name
              /\ Reports[k].url.msg = "DRY_RUN payload:"
              /\ Holds(Reports[k].url.data, "name", locals.selected[k].name)
              /\ Holds(Reports[k].url.data, "message", locals.selected[k].message)
              /\ \A a \in 1..Len(locals.selected[k].appointment_types) :
                     Holds(Reports[k].url.data, "appointment_types[]",
                           locals.selected[k].appointment_types[a])
              /\ Holds(Reports[k].url.data, "_hp", "")
              /\ \E v \in {DEFAULT_HIDDEN_EMAIL} : Holds(Reports[k].url.data, "_email", v)
              /\ Holds(Reports[k].url.data, IsSubmit(locals.opts.form), "1")
        /\ pc \in {"p_end", "p_exit"} /\ locals.selected # <<>>
              => Len(Reports) = Len(locals.selected)

\* a dry run of two personas for form 3 is over, with the requests package
\* at hand
C16_Witness ==
    /\ pc = "p_exit"
    /\ locals.opts.dry_run
    /\ locals.have_requests
    /\ locals.opts.form = 3
    /\ Len(locals.selected) = 2
    /\ Len(Reports) = 2
    /\ locals.selected[1].appointment_types # <<>>
    /\ locals.status = 0

\* the name download_resource stores the URL u under
LocalName(u) == sanitize(basename(urlparse(u, "").path))

\* the references of a stylesheet text: the groups of its @import and
\* url(...) matches
SheetRefs(text) ==
    {ImportMatches(text, 1)[k].g : k \in 1..Len(ImportMatches(text, 1))}
        \cup {UrlMatches(text, 1)[k].g : k \in 1..Len(UrlMatches(text, 1))}

\* the text of the stylesheet of URL base has been through the walker:
\* each of its references whose target answers is the target's local name
Localized(text, base) ==
    \A g \in SheetRefs(text) :
        (~SkipRaw(g) /\ Outcome(net, RequestUrl(urljoin(base, g))) = "ok")
            => g = LocalName(RequestUrl(urljoin(base, g)))

\* C21: with a writable disk, the stored copy of every stylesheet that was
\* fetched, as the target of an @import at any level too, has been through
\* the walker: its references to resources that answer are local.
C21_ImportedSheetWalked ==
    (pc = "done" /\ disk = {}) =>
        \A k \in ResourceWrites :
            SiteCtype(writes[k].url) = "text/css" =>
                Localized(files[writes[k].name], writes[k].url)

\* C22: with a writable disk, for every stylesheet link whose stylesheet
\* answered, the href is the local filename at the end of the session and
\* the file of that name holds the text the walker rewrote; the pass over
\* the link elements leaves the file and the href as they were.
C22_StoredSheetStaysRewritten ==
    /\ (pc = "done" /\ disk = {}) =>
           \A i \in 1..Len(page) :
               (/\ InPass("css", page[i])
                /\ Truthy(page[i].href)
                /\ net[SheetUrl(page[i])] = "ok") =>
                   /\ soup[i].href = CssFilename(SheetUrl(page[i]))
                   /\ Localized(files[soup[i].href], SheetUrl(page[i]))
    /\ pc = "link" =>
           /\ soup[idx].href = OtherLink(soup, idx, net, World).doc[idx].href
           /\ files = OtherLink(soup, idx, net, World).w.files

\* the rel values of the links the snapshot takes besides stylesheets
AllowRels == {"icon", "shortcut icon", "manifest", "apple-touch-icon", "preload",
              "dns-prefetch", "preconnect"}

\* the URL the href of a link resolves to
HrefUrl(e) == RequestUrl(urljoin(PageUrl, e.href))

\* C23: at the end of the session, the target of every link with an href
\* and a rel of the allow-list has been requested, and the href is the
\* local filename if the target answered; the target of a link of another
\* rel (no stylesheet) has not been requested and its href is as it was.
C23_AllowListedLinks ==
    pc = "done" =>
        \A i \in 1..Len(page) :
            (page[i].tag = "link" /\ Truthy(page[i].href) /\ ~HasRel(page[i], "stylesheet")) =>
                IF \E x \in AllowRels : HasRel(page[i], x)
                THEN /\ Count(requests, HrefUrl(page[i])) >= 1
                     /\ net[HrefUrl(page[i])] = "ok"
                            => soup[i].href = LocalName(HrefUrl(page[i]))
                ELSE /\ Count(requests, HrefUrl(page[i])) = 0
                     /\ soup[i].href = page[i].href

\* the URL the src of a script resolves to
SrcUrl(e) == RequestUrl(urljoin(PageUrl, e.src))

\* C24: the pass over the scripts stands at scripts with a src only; at the
\* end of the session a script with a src to fetch has had it requested, and
\* is as it was but for the src, which is the local filename if the request
\* succeeded; a script without a src is as it was, and a page of such
\* scripts only causes no request.
C24_ScriptsWithSrcOnly ==
    /\ pc = "script" => Truthy(soup[idx].src)
    /\ pc = "style" => soup[idx].tag = "style"
    /\ (\A i \in 1..Len(page) : page[i].tag = "script" /\ page[i].src = NoneV)
           => requests = <<>>
    /\ pc = "done" =>
           \A i \in 1..Len(page) :
               page[i].tag = "script" =>
                   IF Truthy(page[i].src) /\ ~SkipRaw(page[i].src)
                   THEN /\ Count(requests, SrcUrl(page[i])) >= 1
                        /\ soup[i] = [page[i] EXCEPT !.src =
                                         IF net[SrcUrl(page[i])] = "ok"
                                         THEN LocalName(SrcUrl(page[i])) ELSE @]
                        /\ net[SrcUrl(page[i])] = "ok" => soup[i].src \in DOMAIN files
                   ELSE soup[i] = page[i]

\* the session of a page with a script of each kind is over; the src of the
\* first was fetched and rewritten, the text of the second names a URL
C24_Witness ==
    /\ pc = "done"
    /\ Len(page) = 2
    /\ page[1].tag = "script" /\ Truthy(page[1].src)
    /\ page[2].tag = "script" /\ page[2].src = NoneV
    /\ UrlMatches(page[2].string, 1) # <<>>
    /\ soup[1].src = <<"app.js">>
    /\ requests = <<UrlJs>>
    /\ files[<<"app.js">>] = <<"JS">>

\* C25: at the end of the session, for every img the URL of its src as a
\* whole, or without a src the URL of the first candidate of its srcset,
\* has been requested, and the src is the local filename if it answered.
C25_ImgSrcWhole ==
    pc = "done" =>
        \A i \in 1..Len(page) :
            (page[i].tag = "img" /\ i \in Refs) =>
                /\ Count(requests, RefUrl(i)) >= 1
                /\ net[RefUrl(i)] = "ok" => soup[i].src = LocalName(RefUrl(i))

\* the canonical URL: scheme, authority, path and the sorted query (the
\* parameters of the query, whatever their order)
Canonical(u) ==
    [scheme |-> urlparse(u, "").scheme, netloc |-> urlparse(u, "").netloc,
     path |-> urlparse(u, "").path,
     query |-> {urlparse(u, "").query[k] : k \in 1..Len(urlparse(u, "").query)}]

\* C26: at the end of the session, two references of the same canonical URL
\* hold the same local filename and their URL was retrieved once; two
\* rewritten references of different canonical URLs hold different local
\* filenames.
C26_CanonicalIdentity ==
    pc = "done" =>
        \A i, j \in Refs :
            IF Canonical(RefUrl(i)) = Canonical(RefUrl(j))
            THEN /\ RefAttr(soup[i]) = RefAttr(soup[j])
                 /\ Cardinality({k \in 1..Len(requests) :
                                    Canonical(requests[k]) = Canonical(RefUrl(i))}) <= 1
            ELSE (RefAttr(soup[i]) # RefAttr(page[i]) /\ RefAttr(soup[j]) # RefAttr(page[j]))
                     => RefAttr(soup[i]) # RefAttr(soup[j])

\* C27: the name of every file written for a fetched resource ends in the
\* extension of the content type the resource was served with, or without
\* one in the extension of the path of its URL, or without one in .bin.
C27_ExtensionByContentType ==
    \A k \in ResourceWrites :
        TokExt(writes[k].name[Len(writes[k].name)])
            = ExtFor(SiteCtype(writes[k].url), urlparse(writes[k].url, "").path)

C29_CacheFiveMinutes ==
    [][(pc = "d_load" /\ locals.gc) =>
          /\ locals'.cached <=>
                 /\ locals.leads_data # NoneStr
                 /\ locals.last_refresh # <<>>
                 /\ locals.now - locals.last_refresh[1] < CacheSeconds
          /\ locals'.cached => ~locals'.read /\ locals'.df = locals.leads_data
          /\ ~locals'.cached =>
                 /\ locals'.read
                 /\ locals'.df = "sheet" => locals'.last_refresh = <<locals.now>>]_vars

\* C30: in every state of the session current_page is one of the four
\* pages; selected_lead_email is None unless current_page is Lead Details;
\* and while authenticated is False the run is not past authenticate, has
\* rendered no page and has loaded no leads (the run that handled the
\* logout loaded its leads before the logout, and ended with it).
C30_SessionInvariant ==
    /\ \E k \in 1..Len(pages) : pages[k] = locals.current_page
    /\ locals.current_page # "Lead Details" => locals.selected_lead_email = NoneStr
    /\ ~locals.authenticated =>
           /\ pc \in {"d_idle", "d_auth"}
           /\ locals.rendered = "none"
           /\ locals.loaded => (pc = "d_idle" /\ locals.event.kind = "logout")

\* a lead was opened and the sidebar then led to Analytics, which is
\* rendered, after a logout and a second login earlier in the session
C30_Witness ==
    /\ pc = "d_idle"
    /\ locals.authenticated
    /\ locals.rendered = "Analytics"
    /\ locals.current_page = "Analytics"
    /\ locals.selected_lead_email = NoneStr
    /\ locals.event = [kind |-> "none", arg |-> ""]
    /\ locals.loaded
    /\ locals.ticks = MaxTicks

=============================================================================
